---- MODULE Spec2Model ----
(***************************************************************************)
(* Event ingestion and reconciliation pipeline of the Google Messages      *)
(* bridge: EventHandler (internal/client/events.go), the backfill store    *)
(* helpers (internal/app/backfill.go), the web send paths                  *)
(* (internal/web/api.go), the SQLite Primary Store and the Supabase sink   *)
(* (internal/supabase/supabase.go and its SQL functions).                  *)
(***************************************************************************)
EXTENDS Integers, Sequences, FiniteSets, TLC

(***************************************************************************)
(* Bounds of the model.                                                    *)
(***************************************************************************)
\* number of operations (events, backfill stores, web requests) of one run
MaxOps == 2
\* number of direct calls of the store and sink interfaces of one run
MaxCalls == 1
\* Store calls started in a run of the connection pool
MaxStatements == 3

(***************************************************************************)
(* Input alphabets.  Message ids are sequences of characters so that the   *)
(* prefix test of strings.HasPrefix is computed, not assumed.              *)
(***************************************************************************)
TmpPrefix == <<"t", "m", "p", "_">>
IdReal1 == <<"m", "1">>
IdTmp1 == <<"t", "m", "p", "_", "1">>
IdTmp2 == <<"t", "m", "p", "_", "2">>
IdTmpShort == <<"t", "m", "p">>

ConvIds == {"c1", "c2"}

\* a message id is issued for one conversation
ConvOf(id) == IF id = IdTmp2 THEN "c2" ELSE "c1"

\* ids generated by BuildSendPayload for an outgoing send
SendTmpId(conv) == IF conv = "c1" THEN IdTmp1 ELSE IdTmp2

\* participants of a conversation payload
PAlice == [name |-> "Alice", number |-> "+1555", is_me |-> FALSE]
PMe == [name |-> "", number |-> "", is_me |-> TRUE]

\* gmproto.Message as far as handleMessage / storeMessage read it;
\* contents are (body, mime type) pairs
MessagePayloads(ids, contents) ==
  { [MessageID |-> id, ConversationID |-> ConvOf(id), Body |-> c[1],
     MimeType |-> c[2], IsMe |-> me] :
       id \in ids, c \in contents, me \in BOOLEAN }

\* gmproto.Conversation as far as handleConversation / storeConversation
\* read it; timestamps are microseconds
ConversationPayloads(ids, names, groups, parts, stamps, unreads) ==
  { [ConversationID |-> id, Name |-> n, IsGroupChat |-> g,
     Participants |-> ps, LastMessageTimestamp |-> ts, Unread |-> u] :
       id \in ids, n \in names, g \in groups, ps \in parts, ts \in stamps,
       u \in unreads }

\* events the protocol client delivers: messages under their final id, and
\* the echo of an outgoing message still under its temporary id
MsgEvents ==
  MessagePayloads({IdReal1}, {<<"", "">>, <<"a", "">>}) \cup
  {[MessageID |-> IdTmp1, ConversationID |-> "c1", Body |-> "a",
    MimeType |-> "", IsMe |-> TRUE]}
ConvEvents ==
  ConversationPayloads({"c1"}, {"", "A"}, {FALSE}, {<<PAlice, PMe>>},
                       {1000000}, {FALSE}) \cup
  ConversationPayloads({"c1"}, {"", "A"}, {FALSE}, {<<PAlice, PMe>>},
                       {2999000}, {TRUE})

\* what backfill fetches from the phone
BackfillMsgs == MessagePayloads({IdReal1}, {<<"a", "">>})
BackfillConvs ==
  ConversationPayloads(ConvIds, {"B"}, {FALSE}, {<<PAlice>>}, {2000000},
                       {FALSE})

\* time.Now().UnixMilli() of the web handlers
NowMS == {1500}

\* conversation snapshots carried by ClientReady
Snapshots ==
  { <<>> } \cup
  { <<[ConversationID |-> "c1", Name |-> "A", IsGroupChat |-> FALSE,
       Participants |-> <<>>, LastMessageTimestamp |-> 1000000,
       Unread |-> FALSE],
      [ConversationID |-> "c2", Name |-> "", IsGroupChat |-> TRUE,
       Participants |-> <<>>, LastMessageTimestamp |-> 2999000,
       Unread |-> TRUE]>> }

\* every payload the quantified properties range over
AllMsgEvents ==
  MessagePayloads({IdReal1, IdTmp1, IdTmp2}, {<<"", "">>, <<"b", "img">>})
AllConvEvents ==
  ConversationPayloads(ConvIds, {"", "B"}, {TRUE}, {<<>>}, {2000000},
                       BOOLEAN)

(***************************************************************************)
(* Helpers.                                                                *)
(***************************************************************************)
HasPrefix(s, p) == Len(s) >= Len(p) /\ SubSeq(s, 1, Len(p)) = p

Max(a, b) == IF a >= b THEN a ELSE b

\* COALESCE(NULLIF(new, ''), old)
CoalesceNonEmpty(new, old) == IF new # "" THEN new ELSE old

\* f with key k bound to v (insert or replace)
Put(f, k, v) == [x \in DOMAIN f \cup {k} |-> IF x = k THEN v ELSE f[x]]

\* f without the keys in ks
Drop(f, ks) == [x \in DOMAIN f \ ks |-> f[x]]

EmptyTable == [x \in {} |-> 0]

(***************************************************************************)
(* Primary Store (SQLite).  Tables are functions from the primary key of   *)
(* the schema in Store.migrate to the row.  Only the columns the handlers  *)
(* below write and the properties read are kept.                           *)
(***************************************************************************)
\* db.Message handed to UpsertMessage
MessageRow(m) ==
  [ConversationID |-> m.ConversationID, Body |-> m.Body,
   MimeType |-> m.MimeType, IsFromMe |-> m.IsFromMe]

\* db.Conversation handed to UpsertConversation
ConversationRow(c) ==
  [Name |-> c.Name, IsGroup |-> c.IsGroup, LastMessageTS |-> c.LastMessageTS,
   UnreadCount |-> c.UnreadCount]

\* Store.UpsertMessage: insert, or update the row with the same message_id
UpsertMessage(msgs, m) ==
  IF m.MessageID \in DOMAIN msgs
    THEN LET old == msgs[m.MessageID] IN
         Put(msgs, m.MessageID,
             [ConversationID |-> old.ConversationID,
              Body |-> CoalesceNonEmpty(m.Body, old.Body),
              MimeType |-> CoalesceNonEmpty(m.MimeType, old.MimeType),
              IsFromMe |-> m.IsFromMe])
    ELSE Put(msgs, m.MessageID, MessageRow(m))

\* Store.UpsertConversation: insert, or update the row with the same id
UpsertConversation(convs, c) ==
  IF c.ConversationID \in DOMAIN convs
    THEN LET old == convs[c.ConversationID] IN
         Put(convs, c.ConversationID,
             [Name |-> CoalesceNonEmpty(c.Name, old.Name),
              IsGroup |-> c.IsGroup,
              LastMessageTS |-> Max(old.LastMessageTS, c.LastMessageTS),
              UnreadCount |-> c.UnreadCount])
    ELSE Put(convs, c.ConversationID, ConversationRow(c))

\* Store.UpdateConversationTimestamp: no row, no error
UpdateConversationTimestamp(convs, id, ts) ==
  IF id \in DOMAIN convs
    THEN [convs EXCEPT ![id].LastMessageTS = Max(@, ts)]
    ELSE convs

\* rows DeleteTmpMessages(conv) selects
TmpMessageIDs(msgs, conv) ==
  {id \in DOMAIN msgs : msgs[id].ConversationID = conv /\ HasPrefix(id, TmpPrefix)}

\* DeleteTmpMessages without the conversation filter
DeleteTmpMessages_AnyConversation(msgs, conv) ==
  [table |-> Drop(msgs, {id \in DOMAIN msgs : HasPrefix(id, TmpPrefix)}),
   n |-> Cardinality({id \in DOMAIN msgs : HasPrefix(id, TmpPrefix)})]

\* DeleteTmpMessages without the id filter
DeleteTmpMessages_WholeConversation(msgs, conv) ==
  [table |-> Drop(msgs, {id \in DOMAIN msgs : msgs[id].ConversationID = conv}),
   n |-> Cardinality({id \in DOMAIN msgs : msgs[id].ConversationID = conv})]

\* Store.DeleteTmpMessages: the table afterwards and the count returned
DeleteTmpMessages(msgs, conv) ==
  [table |-> Drop(msgs, TmpMessageIDs(msgs, conv)),
   n |-> Cardinality(TmpMessageIDs(msgs, conv))]

(***************************************************************************)
(* Secondary sink (Supabase): the SQL functions behind the PostgREST RPCs  *)
(* and the Writer methods that call them.                                  *)
(***************************************************************************)
\* time.UnixMilli(ms).Format(time.RFC3339): the sink sees whole seconds
FormatRFC3339(ms) == ms \div 1000

\* upsert_conversation with last_message_time = EXCLUDED.last_message_time
\* in place of GREATEST(...)
upsert_conversation_LastWins(tbl, p_conversation_id, p_name, p_last_message_time, p_is_group, p_last_message_preview) ==
  Put(tbl, p_conversation_id,
      [name |-> IF p_conversation_id \in DOMAIN tbl
                  THEN CoalesceNonEmpty(p_name, tbl[p_conversation_id].name)
                  ELSE p_name,
       last_message_time |-> p_last_message_time,
       is_group |-> p_is_group,
       last_message_preview |->
         IF p_conversation_id \in DOMAIN tbl
           THEN CoalesceNonEmpty(p_last_message_preview,
                                 tbl[p_conversation_id].last_message_preview)
           ELSE p_last_message_preview])

\* SQL upsert_conversation
upsert_conversation(tbl, p_conversation_id, p_name, p_last_message_time, p_is_group, p_last_message_preview) ==
  IF p_conversation_id \in DOMAIN tbl
    THEN LET old == tbl[p_conversation_id] IN
         Put(tbl, p_conversation_id,
             [name |-> CoalesceNonEmpty(p_name, old.name),
              last_message_time |-> Max(old.last_message_time, p_last_message_time),
              is_group |-> p_is_group,
              last_message_preview |->
                CoalesceNonEmpty(p_last_message_preview, old.last_message_preview)])
    ELSE Put(tbl, p_conversation_id,
             [name |-> p_name, last_message_time |-> p_last_message_time,
              is_group |-> p_is_group,
              last_message_preview |-> p_last_message_preview])

\* upsert_message with content = EXCLUDED.content in place of the COALESCE
upsert_message_Overwrite(tbl, p_id, p_conversation_id, p_content, p_is_from_me, p_media_type, p_media_url) ==
  LET k == <<p_id, p_conversation_id>> IN
  Put(tbl, k,
      [content |-> p_content,
       is_from_me |-> IF k \in DOMAIN tbl THEN tbl[k].is_from_me ELSE p_is_from_me,
       media_type |-> p_media_type, media_url |-> p_media_url])

\* SQL upsert_message on a table keyed by (id, conversation_id); the caller
\* has checked the foreign key
upsert_message(tbl, p_id, p_conversation_id, p_content, p_is_from_me, p_media_type, p_media_url) ==
  LET k == <<p_id, p_conversation_id>> IN
  IF k \in DOMAIN tbl
    THEN LET old == tbl[k] IN
         Put(tbl, k,
             [content |-> CoalesceNonEmpty(p_content, old.content),
              is_from_me |-> old.is_from_me,
              media_type |-> CoalesceNonEmpty(p_media_type, old.media_type),
              media_url |-> CoalesceNonEmpty(p_media_url, old.media_url)])
    ELSE Put(tbl, k,
             [content |-> p_content, is_from_me |-> p_is_from_me,
              media_type |-> p_media_type, media_url |-> p_media_url])

\* SQL upsert_contact
upsert_contact(tbl, p_number, p_name) ==
  IF p_number \in DOMAIN tbl
    THEN Put(tbl, p_number, CoalesceNonEmpty(p_name, tbl[p_number]))
    ELSE Put(tbl, p_number, p_name)

\* a messages table without the REFERENCES clause
ForeignKeyOK_Unchecked(sbConvs, p_conversation_id) == TRUE

\* messages.conversation_id REFERENCES conversations(conversation_id)
ForeignKeyOK(sbConvs, p_conversation_id) == p_conversation_id \in DOMAIN sbConvs

\* Writer.UpsertMessage without its early return
WriterSkipsMessage_Never(content, mediaType) == FALSE

\* Writer.UpsertMessage returns nil before any RPC for an empty message
WriterSkipsMessage(content, mediaType) == content = "" /\ mediaType = ""

(***************************************************************************)
(* State.                                                                  *)
(***************************************************************************)
VARIABLES
  conversations,    \* Primary Store: conversations table
  messages,         \* Primary Store: messages table
  sbConversations,  \* sink: conversations table
  sbMessages,       \* sink: messages table, keyed by <<id, conversation_id>>
  sbContacts,       \* sink: contacts table, number -> name
  appSupabase,      \* App.Supabase, a *supabase.Writer: "nil" or "writer"
  handlerSupabase,  \* EventHandler.Supabase, a SupabaseSync interface value
  goroutines,       \* detached sink goroutines that have not finished
  nextTid,          \* number of goroutines started so far
  lastSink,         \* outcome of the latest Writer method call
  crashed,          \* the process died of an unrecovered panic
  nOps,             \* operations performed so far
  lastOp,           \* what the latest operation did
  seen,             \* history: events Handle has stored without an error
  fresh,            \* history: those of them no later write has overtaken
  connected,        \* App.Connected
  loadPc,           \* where App.LoadAndConnect stands
  nConnect,         \* calls of cli.GM.Connect so far
  nDisconnect,      \* calls of the OnDisconnect callback so far
  calls,            \* the Store call each caller of the *sql.DB is in
  drafts,           \* Primary Store: drafts table
  cli,              \* the *client.Client the web and event handlers hold
  sessionFile,      \* content of the file at the session path
  sessionPath,      \* EventHandler.SessionPath
  pg,               \* the sink's database as runMigrations sees it
  mac               \* the macOS app: BackendManager, NotificationManager

vars == <<conversations, messages, sbConversations, sbMessages, sbContacts,
          appSupabase, handlerSupabase, goroutines, nextTid, lastSink,
          crashed, nOps, lastOp, seen, fresh, connected, loadPc, nConnect,
          nDisconnect, calls, drafts, cli, sessionFile, sessionPath, pg,
          mac>>

primary == <<conversations, messages>>
sink == <<sbConversations, sbMessages, sbContacts>>
wiring == <<appSupabase, handlerSupabase>>
history == <<seen, fresh>>
link == <<connected, loadPc, nConnect, nDisconnect>>
\* what the store, sink and handler steps of the sections below leave alone
web == <<drafts, cli>>
auth == <<sessionFile, sessionPath>>
\* the sink's migration runner and the macOS app around the server
apart == <<pg, mac>>
env == <<link, calls, web, auth, apart>>

(***************************************************************************)
(* Wiring (App.New, App.LoadAndConnect).                                   *)
(***************************************************************************)
\* NewWriter: nil without SUPABASE_URL / SUPABASE_KEY
NewWriter(configured) == IF configured THEN "writer" ELSE "nil"

\* the SupabaseSync interface value LoadAndConnect stores in the handler:
\* a *supabase.Writer converted to the interface keeps its dynamic type
ToSupabaseSync(ptr) == [dyntype |-> "*supabase.Writer", ptr |-> ptr]

\* h.Supabase != nil compares the interface value
InterfaceNotNil(i) == i.dyntype # "none"

\* a.Supabase != nil compares the pointer
PointerNotNil(ptr) == ptr # "nil"

NoOp ==
  [kind |-> "none", conv |-> "", id |-> <<>>, confirmedFromMe |-> FALSE,
   okIdx |-> {}, spawnedIdx |-> {}, swept |-> FALSE, n |-> 0]

NoHistory == [msg |-> {}, conv |-> {}]

\* goroutines that call the Store: the event handler (libgm's), the startup
\* backfill, a deep backfill and an HTTP handler
Callers == {"handler", "backfill", "deepBackfill", "http"}

\* no Store call is under way
NoCall == [pc |-> "idle", stmt |-> "none", arg |-> <<>>]
NoCalls == [p \in Callers |-> NoCall]

\* session data the client can hold: the one pairing saved and the ones
\* later token refreshes produce
SessionDatas == {"s0", "s1", "s2"}

\* neither the migration runner nor the macOS app takes part
NotApart ==
  /\ pg = "none"
  /\ mac = "none"

\* the session file as the pair command left it (cmd/pair.go)
PairedSession ==
  /\ sessionFile = "s0"
  /\ sessionPath = "session.json"

\* LoadAndConnect has kept the client, called Connect once and stored
\* Connected = true
LoadAndConnectReturned ==
  /\ connected = TRUE
  /\ loadPc = "done"
  /\ nConnect = 1
  /\ nDisconnect = 0
  /\ cli = "client"

\* no App around the store: the unit tests open a db.Store of their own
NoApp ==
  /\ connected = FALSE
  /\ loadPc = "none"
  /\ nConnect = 0
  /\ nDisconnect = 0
  /\ cli = "nil"

Init ==
  /\ conversations = EmptyTable
  /\ messages = EmptyTable
  /\ sbConversations = EmptyTable
  /\ sbMessages = EmptyTable
  /\ sbContacts = EmptyTable
  /\ \E configured \in BOOLEAN : appSupabase = NewWriter(configured)
  /\ handlerSupabase = ToSupabaseSync(appSupabase)
  /\ goroutines = {}
  /\ nextTid = 0
  /\ lastSink = "none"
  /\ crashed = FALSE
  /\ nOps = 0
  /\ lastOp = NoOp
  /\ seen = NoHistory
  /\ fresh = NoHistory
  /\ LoadAndConnectReturned
  /\ calls = NoCalls
  /\ PairedSession
  /\ NotApart
  /\ drafts = EmptyTable

(***************************************************************************)
(* History bookkeeping for the redelivery properties.                      *)
(***************************************************************************)
\* a write to the messages of conversation conv overtakes its message events
OvertakeMessages(h, conv) ==
  [h EXCEPT !.msg = {e \in @ : e.ConversationID # conv}]

\* a write to the conversations in ids overtakes their conversation events
OvertakeConversations(h, ids) ==
  [h EXCEPT !.conv = {e \in @ : e.ConversationID \notin ids}]

(***************************************************************************)
(* Normalisation done by handleMessage / storeMessage and                  *)
(* handleConversation / storeConversation.                                 *)
(***************************************************************************)
\* the db.Message built from a gmproto.Message
DbMessage(evt) ==
  [MessageID |-> evt.MessageID, ConversationID |-> evt.ConversationID,
   Body |-> evt.Body, MimeType |-> evt.MimeType, IsFromMe |-> evt.IsMe]

\* the db.Conversation built from a gmproto.Conversation
DbConversation(conv) ==
  [ConversationID |-> conv.ConversationID, Name |-> conv.Name,
   IsGroup |-> conv.IsGroupChat,
   LastMessageTS |-> conv.LastMessageTimestamp \div 1000,
   UnreadCount |-> IF conv.Unread THEN 1 ELSE 0]

\* the sweep condition of handleMessage
IsConfirmedFromMe(dbMsg) ==
  dbMsg.IsFromMe /\ ~HasPrefix(dbMsg.MessageID, TmpPrefix)

\* a handleMessage that logs the failed upsert and carries on to the sweep
handleMessageStore_NoReturn(msgs, evt, upsertErr, sweepErr) ==
  LET dbMsg == DbMessage(evt)
      stored == IF upsertErr THEN msgs ELSE UpsertMessage(msgs, dbMsg)
  IN IF IsConfirmedFromMe(dbMsg) /\ ~sweepErr
       THEN DeleteTmpMessages(stored, dbMsg.ConversationID).table
       ELSE stored

\* handleMessage sweeping the placeholders of every conversation
handleMessageStore_SweepAll(msgs, evt, upsertErr, sweepErr) ==
  LET dbMsg == DbMessage(evt) IN
  IF upsertErr THEN msgs
  ELSE LET stored == UpsertMessage(msgs, dbMsg) IN
       IF IsConfirmedFromMe(dbMsg) /\ ~sweepErr
         THEN Drop(stored, {id \in DOMAIN stored : HasPrefix(id, TmpPrefix)})
         ELSE stored

\* messages table after handleMessage
handleMessageStore(msgs, evt, upsertErr, sweepErr) ==
  LET dbMsg == DbMessage(evt) IN
  IF upsertErr THEN msgs
  ELSE LET stored == UpsertMessage(msgs, dbMsg) IN
       IF IsConfirmedFromMe(dbMsg) /\ ~sweepErr
         THEN DeleteTmpMessages(stored, dbMsg.ConversationID).table
         ELSE stored

\* the count handleMessage gets back from DeleteTmpMessages (0: not called,
\* or failed)
handleMessageSwept(msgs, evt, upsertErr, sweepErr) ==
  LET dbMsg == DbMessage(evt) IN
  IF ~upsertErr /\ IsConfirmedFromMe(dbMsg) /\ ~sweepErr
    THEN DeleteTmpMessages(UpsertMessage(msgs, dbMsg), dbMsg.ConversationID).n
    ELSE 0

\* messages table after storeMessage (backfill)
storeMessageStore(msgs, evt, upsertErr) ==
  IF upsertErr THEN msgs ELSE UpsertMessage(msgs, DbMessage(evt))

\* handleConversation adding the unread flag to the stored counter
handleConversationStore_Counting(convs, conv, upsertErr) ==
  LET dbConv == DbConversation(conv) IN
  IF upsertErr THEN convs
  ELSE UpsertConversation(convs,
         [dbConv EXCEPT !.UnreadCount =
            IF conv.ConversationID \in DOMAIN convs
              THEN convs[conv.ConversationID].UnreadCount + @
              ELSE @])

\* conversations table after handleConversation
handleConversationStore(convs, conv, upsertErr) ==
  IF upsertErr THEN convs ELSE UpsertConversation(convs, DbConversation(conv))

\* conversations table after storeConversation (backfill)
storeConversationStore(convs, conv, upsertErr) ==
  IF upsertErr THEN convs ELSE UpsertConversation(convs, DbConversation(conv))

(***************************************************************************)
(* Detached goroutines.                                                    *)
(***************************************************************************)
\* go func() { h.Supabase.UpsertMessage(...) }()
MessageGoroutine(tid, via, dbMsg) ==
  [fn |-> "UpsertMessage", tid |-> tid, via |-> via, stage |-> "rpc",
   id |-> dbMsg.MessageID, conv |-> dbMsg.ConversationID,
   text |-> dbMsg.Body, flag |-> dbMsg.IsFromMe, media |-> dbMsg.MimeType,
   ts |-> 0, parts |-> <<>>]

\* go func() { h.Supabase.UpsertConversation(...); contacts loop }()
ConversationGoroutine(tid, via, dbConv, participants) ==
  [fn |-> "UpsertConversation", tid |-> tid, via |-> via, stage |-> "rpc",
   id |-> <<>>, conv |-> dbConv.ConversationID,
   text |-> dbConv.Name, flag |-> dbConv.IsGroup, media |-> "",
   ts |-> dbConv.LastMessageTS, parts |-> participants]

\* participants the contacts loop of the handler goroutine syncs
IsSyncedParticipant(p) == p.number # "" /\ ~p.is_me
EligibleParticipants(parts) == SelectSeq(parts, IsSyncedParticipant)

\* the loop of h.Supabase.UpsertContact calls; calls in failIdx fail
RECURSIVE UpsertContacts(_, _, _, _)
UpsertContacts(tbl, ps, i, failIdx) ==
  IF i > Len(ps) THEN tbl
  ELSE UpsertContacts(
         IF i \in failIdx THEN tbl ELSE upsert_contact(tbl, ps[i].number, ps[i].name),
         ps, i + 1, failIdx)

(***************************************************************************)
(* EventHandler.Handle.                                                    *)
(***************************************************************************)
\* a Handle that waits for the goroutines it started
HandlerMayRun_AfterSink == ~crashed /\ nOps < MaxOps /\ goroutines = {}

\* Handle is called for the next event as soon as the previous call has
\* returned; nothing in it waits for a goroutine it started
HandlerMayRun == ~crashed /\ nOps < MaxOps

\* the sink block without the early return on a store error
HandlerSpawns_Regardless(upsertErr, iface) == InterfaceNotNil(iface)

\* handleMessage / handleConversation return before the sink block when the
\* Primary Store upsert failed
HandlerSpawns(upsertErr, iface) == ~upsertErr /\ InterfaceNotNil(iface)

\* storeMessage / storeConversation: the same with App.Supabase
BackfillSpawns(upsertErr, ptr) == ~upsertErr /\ PointerNotNil(ptr)

\* EventHandler.handleMessage
handleMessage(evt, upsertErr, sweepErr) ==
  LET dbMsg == DbMessage(evt)
      spawn == HandlerSpawns(upsertErr, handlerSupabase)
  IN
  /\ messages' = handleMessageStore(messages, evt, upsertErr, sweepErr)
  /\ goroutines' = IF spawn
                     THEN goroutines \cup {MessageGoroutine(nextTid, "handler", dbMsg)}
                     ELSE goroutines
  /\ nextTid' = IF spawn THEN nextTid + 1 ELSE nextTid
  /\ lastOp' = [kind |-> "handleMessage", conv |-> dbMsg.ConversationID,
                id |-> dbMsg.MessageID,
                confirmedFromMe |-> IsConfirmedFromMe(dbMsg),
                okIdx |-> IF upsertErr THEN {} ELSE {1},
                spawnedIdx |-> IF spawn THEN {1} ELSE {},
                swept |-> ~upsertErr /\ IsConfirmedFromMe(dbMsg) /\ ~sweepErr,
                n |-> handleMessageSwept(messages, evt, upsertErr, sweepErr)]
  /\ nOps' = nOps + 1
  /\ seen' = IF upsertErr \/ sweepErr THEN seen
             ELSE [seen EXCEPT !.msg = @ \cup {evt}]
  /\ fresh' = IF upsertErr THEN fresh
              ELSE IF sweepErr THEN OvertakeMessages(fresh, evt.ConversationID)
              ELSE [OvertakeMessages(fresh, evt.ConversationID)
                      EXCEPT !.msg = @ \cup {evt}]
  /\ UNCHANGED <<conversations, sink, wiring, env, lastSink, crashed>>

\* case *libgm.WrappedMessage
HandleMessageReceived ==
  /\ HandlerMayRun
  /\ \E evt \in MsgEvents, upsertErr \in BOOLEAN, sweepErr \in BOOLEAN :
       \* DeleteTmpMessages can only fail when it is called
       /\ sweepErr => (~upsertErr /\ IsConfirmedFromMe(DbMessage(evt)))
       /\ handleMessage(evt, upsertErr, sweepErr)

\* a handleClientReady that gives up at the first conversation it cannot
\* store
RECURSIVE handleConversationsStore_StopAtError(_, _, _, _)
handleConversationsStore_StopAtError(convs, snapshot, i, errs) ==
  IF i > Len(snapshot) \/ i \in errs THEN convs
  ELSE handleConversationsStore_StopAtError(
         handleConversationStore(convs, snapshot[i], FALSE),
         snapshot, i + 1, errs)

\* conversations table after handleConversation for snapshot[i..], the
\* upserts of the indices in errs failing
RECURSIVE handleConversationsStore(_, _, _, _)
handleConversationsStore(convs, snapshot, i, errs) ==
  IF i > Len(snapshot) THEN convs
  ELSE handleConversationsStore(
         handleConversationStore(convs, snapshot[i], i \in errs),
         snapshot, i + 1, errs)

\* indices of the snapshot for which handleConversation starts a goroutine
SpawnedIndices(snapshot, errs, iface) ==
  {i \in 1..Len(snapshot) : HandlerSpawns(i \in errs, iface)}

\* place of index i among the spawned indices, from 0
SpawnRank(idx, i) == Cardinality({j \in idx : j < i})

\* EventHandler.handleConversation for every element of the list, in order
\* (a one-element list for a ConversationUpdated event)
handleConversations(kind, snapshot, errs) ==
  LET idx == SpawnedIndices(snapshot, errs, handlerSupabase)
      ok == (1..Len(snapshot)) \ errs
  IN
  /\ conversations' = handleConversationsStore(conversations, snapshot, 1, errs)
  /\ goroutines' = goroutines \cup
       { ConversationGoroutine(nextTid + SpawnRank(idx, i), "handler",
                               DbConversation(snapshot[i]),
                               snapshot[i].Participants) : i \in idx }
  /\ nextTid' = nextTid + Cardinality(idx)
  /\ lastOp' = [kind |-> kind,
                conv |-> IF Len(snapshot) > 0 THEN snapshot[1].ConversationID ELSE "",
                id |-> <<>>, confirmedFromMe |-> FALSE,
                okIdx |-> ok, spawnedIdx |-> idx, swept |-> FALSE, n |-> 0]
  /\ nOps' = nOps + 1
  /\ seen' = IF kind = "handleConversation" /\ ok # {}
               THEN [seen EXCEPT !.conv = @ \cup {snapshot[1]}]
               ELSE seen
  /\ fresh' =
       LET rest == OvertakeConversations(
                     fresh, {snapshot[i].ConversationID : i \in ok})
       IN IF kind = "handleConversation" /\ ok # {}
            THEN [rest EXCEPT !.conv = @ \cup {snapshot[1]}]
            ELSE rest
  /\ UNCHANGED <<messages, sink, wiring, env, lastSink, crashed>>

\* case *gmproto.Conversation
HandleConversationUpdated ==
  /\ HandlerMayRun
  /\ \E conv \in ConvEvents, upsertErr \in BOOLEAN :
       handleConversations("handleConversation", <<conv>>,
                           IF upsertErr THEN {1} ELSE {})

\* case *events.ClientReady: handleClientReady
HandleClientReady ==
  /\ HandlerMayRun
  /\ \E snapshot \in Snapshots :
       \E errs \in SUBSET (1..Len(snapshot)) :
         handleConversations("handleClientReady", snapshot, errs)

\* the event types Handle only logs: the cases PairSuccessful,
\* ListenTemporaryError, ListenRecovered, PhoneNotResponding and
\* PhoneRespondingAgain, and the default case for any other type
LoggedEvents ==
  {"PairSuccessful", "ListenTemporaryError", "ListenRecovered",
   "PhoneNotResponding", "PhoneRespondingAgain", "Unhandled"}

\* a default case that drops the table it cannot interpret the event for
LogOnly_Reset(tbl, kind) == IF kind = "Unhandled" THEN EmptyTable ELSE tbl

\* a Primary Store table after one of the log-only cases
LogOnly(tbl, kind) == tbl

\* the log-only cases of Handle
HandleLogged ==
  /\ HandlerMayRun
  /\ \E kind \in LoggedEvents :
       /\ conversations' = LogOnly(conversations, kind)
       /\ messages' = LogOnly(messages, kind)
       /\ lastOp' = [NoOp EXCEPT !.kind = kind]
  /\ nOps' = nOps + 1
  /\ UNCHANGED <<sink, wiring, env, goroutines, nextTid, lastSink, crashed,
                 history>>

\* a callback that leaves App.Connected as it is
OnDisconnect_Keep(c) == c

\* App.Connected after the OnDisconnect callback LoadAndConnect supplies:
\* a.Connected.Store(false)
OnDisconnect(c) == FALSE

\* case *events.ListenFatalError; h.OnDisconnect is never nil in a handler
\* built by LoadAndConnect
HandleListenFatalError ==
  /\ HandlerMayRun
  /\ connected' = OnDisconnect(connected)
  /\ nDisconnect' = nDisconnect + 1
  /\ lastOp' = [NoOp EXCEPT !.kind = "ListenFatalError"]
  /\ nOps' = nOps + 1
  /\ UNCHANGED <<primary, sink, wiring, calls, web, auth, apart, loadPc, nConnect, goroutines, nextTid,
                 lastSink, crashed, history>>

\* App.LoadAndConnect after cli.GM.Connect() has returned nil:
\* a.Connected.Store(true).  The handler is installed before Connect, so
\* events may be handled before this step
LoadAndConnectStore ==
  /\ ~crashed
  /\ loadPc = "connect-returned"
  /\ connected' = TRUE
  /\ loadPc' = "done"
  /\ UNCHANGED <<primary, sink, wiring, calls, web, auth, apart, nConnect, nDisconnect, goroutines,
                 nextTid, lastSink, crashed, nOps, lastOp, history>>

(***************************************************************************)
(* Backfill (runs in its own goroutine next to the event stream).          *)
(***************************************************************************)
\* App.storeConversation
storeConversation(conv, upsertErr) ==
  LET spawn == BackfillSpawns(upsertErr, appSupabase) IN
  /\ conversations' = storeConversationStore(conversations, conv, upsertErr)
  /\ goroutines' = IF spawn
                     THEN goroutines \cup
                          {ConversationGoroutine(nextTid, "backfill",
                                                 DbConversation(conv), <<>>)}
                     ELSE goroutines
  /\ nextTid' = IF spawn THEN nextTid + 1 ELSE nextTid
  /\ lastOp' = [kind |-> "storeConversation", conv |-> conv.ConversationID,
                id |-> <<>>, confirmedFromMe |-> FALSE,
                okIdx |-> IF upsertErr THEN {} ELSE {1},
                spawnedIdx |-> IF spawn THEN {1} ELSE {}, swept |-> FALSE,
                n |-> 0]
  /\ nOps' = nOps + 1
  /\ fresh' = IF upsertErr THEN fresh
              ELSE OvertakeConversations(fresh, {conv.ConversationID})
  /\ UNCHANGED <<messages, sink, wiring, env, lastSink, crashed, seen>>

BackfillStoreConversation ==
  /\ HandlerMayRun
  /\ \E conv \in BackfillConvs, upsertErr \in BOOLEAN :
       storeConversation(conv, upsertErr)

\* App.storeMessage
storeMessage(evt, upsertErr) ==
  LET dbMsg == DbMessage(evt)
      spawn == BackfillSpawns(upsertErr, appSupabase)
  IN
  /\ messages' = storeMessageStore(messages, evt, upsertErr)
  /\ goroutines' = IF spawn
                     THEN goroutines \cup {MessageGoroutine(nextTid, "backfill", dbMsg)}
                     ELSE goroutines
  /\ nextTid' = IF spawn THEN nextTid + 1 ELSE nextTid
  /\ lastOp' = [kind |-> "storeMessage", conv |-> dbMsg.ConversationID,
                id |-> dbMsg.MessageID,
                confirmedFromMe |-> IsConfirmedFromMe(dbMsg),
                okIdx |-> IF upsertErr THEN {} ELSE {1},
                spawnedIdx |-> IF spawn THEN {1} ELSE {}, swept |-> FALSE,
                n |-> 0]
  /\ nOps' = nOps + 1
  /\ fresh' = IF upsertErr THEN fresh
              ELSE OvertakeMessages(fresh, evt.ConversationID)
  /\ UNCHANGED <<conversations, sink, wiring, env, lastSink, crashed, seen>>

BackfillStoreMessage ==
  /\ HandlerMayRun
  /\ \E evt \in BackfillMsgs, upsertErr \in BOOLEAN : storeMessage(evt, upsertErr)

(***************************************************************************)
(* Web send paths.                                                         *)
(***************************************************************************)
\* the placeholder row /api/send stores after a successful SendMessage
PlaceholderMessage(conv, body) ==
  [MessageID |-> SendTmpId(conv), ConversationID |-> conv, Body |-> body,
   MimeType |-> "", IsFromMe |-> TRUE]

\* POST /api/send with a valid request and a connected client; the errors of
\* the two store calls are dropped by the handler
ApiSend ==
  /\ HandlerMayRun
  /\ \E conv \in ConvIds, now \in NowMS, success \in BOOLEAN,
        upsertErr \in BOOLEAN, bumpErr \in BOOLEAN :
       \* rand.Int63n(1e12) yields an id no stored row has
       /\ SendTmpId(conv) \notin DOMAIN messages
       /\ (upsertErr \/ bumpErr) => success
       /\ messages' = IF success /\ ~upsertErr
                        THEN UpsertMessage(messages, PlaceholderMessage(conv, "a"))
                        ELSE messages
       /\ conversations' = IF success /\ ~bumpErr
                             THEN UpdateConversationTimestamp(conversations, conv, now)
                             ELSE conversations
       /\ lastOp' = [kind |-> "apiSend", conv |-> conv, id |-> SendTmpId(conv),
                     confirmedFromMe |-> FALSE,
                     okIdx |-> IF success /\ ~upsertErr THEN {1} ELSE {},
                     spawnedIdx |-> {}, swept |-> FALSE, n |-> 0]
       /\ fresh' =
            LET h == IF success /\ ~upsertErr
                       THEN OvertakeMessages(fresh, conv) ELSE fresh
            IN IF success /\ ~bumpErr
                 THEN OvertakeConversations(h, {conv}) ELSE h
  /\ nOps' = nOps + 1
  /\ UNCHANGED <<sink, wiring, env, goroutines, nextTid, lastSink, crashed, seen>>

\* POST /api/new-conversation after GetOrCreateConversation returned one
ApiNewConversation ==
  /\ HandlerMayRun
  /\ \E conv \in ConvIds, name \in {"A"}, now \in NowMS,
        upsertErr \in BOOLEAN :
       /\ conversations' =
            IF upsertErr THEN conversations
            ELSE UpsertConversation(conversations,
                   [ConversationID |-> conv, Name |-> name, IsGroup |-> FALSE,
                    LastMessageTS |-> now, UnreadCount |-> 0])
       /\ lastOp' = [kind |-> "apiNewConversation", conv |-> conv, id |-> <<>>,
                     confirmedFromMe |-> FALSE,
                     okIdx |-> IF upsertErr THEN {} ELSE {1},
                     spawnedIdx |-> {}, swept |-> FALSE, n |-> 0]
       /\ fresh' = IF upsertErr THEN fresh
                   ELSE OvertakeConversations(fresh, {conv})
  /\ nOps' = nOps + 1
  /\ UNCHANGED <<messages, sink, wiring, env, goroutines, nextTid, lastSink,
                 crashed, seen>>

(***************************************************************************)
(* Bodies of the detached goroutines.  The receiver of the Writer methods  *)
(* is the pointer held by the interface value (handler) or App.Supabase    *)
(* (backfill); a method that reaches Writer.rpc dereferences it.           *)
(***************************************************************************)
Receiver(t) == IF t.via = "handler" THEN handlerSupabase.ptr ELSE appSupabase

\* a failed sink call undone in the Primary Store
OnSinkError_Rollback(tbl, t) ==
  Drop(tbl, IF t.fn = "UpsertMessage" THEN {t.id} ELSE {t.conv})

\* what a failed sink call does to the Primary Store: it is logged
OnSinkError(tbl, t) == tbl

\* unrecovered panic in a goroutine: the process exits
Panic ==
  /\ crashed' = TRUE
  /\ lastSink' = "panic"
  /\ goroutines' = {}
  /\ UNCHANGED <<primary, sink, wiring, env, nextTid, nOps, lastOp, history>>

\* goroutine of handleMessage / storeMessage
RunMessageGoroutine ==
  /\ ~crashed
  /\ \E t \in goroutines, rpcOK \in BOOLEAN :
       /\ t.fn = "UpsertMessage"
       /\ IF WriterSkipsMessage(t.text, t.media)
            THEN /\ rpcOK
                 /\ goroutines' = goroutines \ {t}
                 /\ lastSink' = "skipped"
                 /\ UNCHANGED <<primary, sink, wiring, env, nextTid, crashed, nOps,
                                lastOp, history>>
            ELSE IF Receiver(t) = "nil"
              THEN rpcOK /\ Panic
              ELSE /\ goroutines' = goroutines \ {t}
                   /\ IF rpcOK /\ ForeignKeyOK(sbConversations, t.conv)
                        THEN /\ sbMessages' = upsert_message(sbMessages, t.id, t.conv,
                                                t.text, t.flag, t.media, "")
                             /\ messages' = messages
                             /\ lastSink' = "ok"
                        ELSE /\ sbMessages' = sbMessages
                             /\ messages' = OnSinkError(messages, t)
                             /\ lastSink' = "error"
                   /\ UNCHANGED <<conversations, sbConversations, sbContacts,
                                  wiring, env, nextTid, crashed, nOps, lastOp,
                                  history>>

\* goroutine of handleConversation / storeConversation: UpsertConversation
RunConversationGoroutine ==
  /\ ~crashed
  /\ \E t \in goroutines, rpcOK \in BOOLEAN :
       /\ t.fn = "UpsertConversation" /\ t.stage = "rpc"
       /\ IF Receiver(t) = "nil"
            THEN rpcOK /\ Panic
            ELSE /\ goroutines' =
                      IF t.via = "handler" /\ Len(EligibleParticipants(t.parts)) > 0
                        THEN (goroutines \ {t}) \cup {[t EXCEPT !.stage = "contacts"]}
                        ELSE goroutines \ {t}
                 /\ IF rpcOK
                      THEN /\ sbConversations' =
                                upsert_conversation(sbConversations, t.conv, t.text,
                                                    FormatRFC3339(t.ts), t.flag, "")
                           /\ conversations' = conversations
                           /\ lastSink' = "ok"
                      ELSE /\ sbConversations' = sbConversations
                           /\ conversations' = OnSinkError(conversations, t)
                           /\ lastSink' = "error"
                 /\ UNCHANGED <<messages, sbMessages, sbContacts, wiring, env,
                                nextTid, crashed, nOps, lastOp, history>>

\* goroutine of handleConversation: the UpsertContact loop
RunContactsLoop ==
  /\ ~crashed
  /\ \E t \in goroutines :
       /\ t.fn = "UpsertConversation" /\ t.stage = "contacts"
       /\ LET ps == EligibleParticipants(t.parts) IN
          \E failIdx \in SUBSET (1..Len(ps)) :
            /\ sbContacts' = UpsertContacts(sbContacts, ps, 1, failIdx)
            /\ lastSink' = IF failIdx = {} THEN "ok" ELSE "error"
       /\ goroutines' = goroutines \ {t}
       /\ UNCHANGED <<primary, sbConversations, sbMessages, wiring, env, nextTid,
                      crashed, nOps, lastOp, history>>

Next ==
  \/ HandleMessageReceived
  \/ HandleConversationUpdated
  \/ HandleClientReady
  \/ BackfillStoreConversation
  \/ BackfillStoreMessage
  \/ ApiSend
  \/ ApiNewConversation
  \/ RunMessageGoroutine
  \/ RunConversationGoroutine
  \/ RunContactsLoop

Spec == Init /\ [][Next]_vars

(***************************************************************************)
(* The event stream alone: every case of Handle, from the moment Connect   *)
(* has returned, with the goroutines the handlers start.                   *)
(***************************************************************************)
InitHandle ==
  /\ conversations = EmptyTable
  /\ messages = EmptyTable
  /\ sbConversations = EmptyTable
  /\ sbMessages = EmptyTable
  /\ sbContacts = EmptyTable
  /\ \E configured \in BOOLEAN : appSupabase = NewWriter(configured)
  /\ handlerSupabase = ToSupabaseSync(appSupabase)
  /\ goroutines = {}
  /\ nextTid = 0
  /\ lastSink = "none"
  /\ crashed = FALSE
  /\ nOps = 0
  /\ lastOp = NoOp
  /\ seen = NoHistory
  /\ fresh = NoHistory
  /\ connected = FALSE
  /\ loadPc = "connect-returned"
  /\ nConnect = 1
  /\ nDisconnect = 0
  /\ cli = "client"
  /\ calls = NoCalls
  /\ PairedSession
  /\ NotApart
  /\ drafts = EmptyTable

NextHandle ==
  \/ HandleMessageReceived
  \/ HandleConversationUpdated
  \/ HandleClientReady
  \/ HandleLogged
  \/ HandleListenFatalError
  \/ LoadAndConnectStore
  \/ RunMessageGoroutine
  \/ RunConversationGoroutine
  \/ RunContactsLoop

SpecHandle == InitHandle /\ [][NextHandle]_vars

(***************************************************************************)
(* The store and sink interfaces called directly, the way the store's unit *)
(* tests call db.Store and any PostgREST client calls the SQL functions.   *)
(* The run starts from tables some earlier run has filled.                 *)
(***************************************************************************)
IdTmp3 == <<"t", "m", "p", "_", "3">>

\* rows an earlier run may have left in the messages table
SeedRows ==
  { [MessageID |-> IdTmp1, ConversationID |-> "c1", Body |-> "a",
     MimeType |-> "", IsFromMe |-> TRUE],
    [MessageID |-> IdTmp3, ConversationID |-> "c1", Body |-> "b",
     MimeType |-> "", IsFromMe |-> TRUE],
    [MessageID |-> IdTmp2, ConversationID |-> "c2", Body |-> "a",
     MimeType |-> "", IsFromMe |-> TRUE],
    [MessageID |-> IdReal1, ConversationID |-> "c1", Body |-> "a",
     MimeType |-> "img", IsFromMe |-> FALSE],
    [MessageID |-> IdTmpShort, ConversationID |-> "c1", Body |-> "a",
     MimeType |-> "", IsFromMe |-> TRUE] }

\* the messages table holding exactly the rows in rs
SeedMessages(rs) == [id \in {r.MessageID : r \in rs} |->
                       MessageRow(CHOOSE r \in rs : r.MessageID = id)]

SeedConversation ==
  [ConversationID |-> "c1", Name |-> "A", IsGroup |-> FALSE,
   LastMessageTS |-> 2000, UnreadCount |-> 1]

\* arguments of the direct calls
StoreMessageArgs ==
  { DbMessage(e) :
      e \in MessagePayloads({IdReal1, IdTmp1},
              {<<"", "">>, <<"b", "">>, <<"", "png">>, <<"b", "png">>}) }
  \cup
  \* a message id arriving for a second conversation
  { [MessageID |-> IdReal1, ConversationID |-> "c2", Body |-> "b",
     MimeType |-> "", IsFromMe |-> TRUE] }
StoreConversationArgs ==
  { DbConversation(e) :
      e \in ConversationPayloads({"c1"}, {"", "B"}, {TRUE}, {<<>>},
                                 {1000000, 2999000}, BOOLEAN) }
StoreTimestamps == {1500, 4000}
StoreConvIds == ConvIds \cup {"c3"}
RpcNames == {"", "B"}
RpcTimes == {1, 3}
RpcContents == {"", "b"}
RpcMediaTypes == {"", "png"}
RpcMediaUrls == {"", "u"}
RpcNumbers == {"+1555"}

StoreMayBeCalled == nOps < MaxCalls

\* what the latest direct call was given and found
Call(kind, args, before, err, n) ==
  [kind |-> kind, args |-> args, before |-> before, err |-> err, n |-> n]

InitStore ==
  /\ \E rs \in SUBSET SeedRows : messages = SeedMessages(rs)
  /\ \E seeded \in BOOLEAN :
       conversations = IF seeded
                         THEN UpsertConversation(EmptyTable, SeedConversation)
                         ELSE EmptyTable
  /\ \E seeded \in BOOLEAN :
       /\ sbConversations =
            IF seeded THEN upsert_conversation(EmptyTable, "c1", "A", 2, FALSE, "p")
            ELSE EmptyTable
       /\ sbMessages =
            IF seeded
              THEN upsert_message(EmptyTable, IdReal1, "c1", "a", FALSE, "img", "v")
              ELSE EmptyTable
  /\ sbContacts = EmptyTable
  /\ appSupabase = NewWriter(TRUE)
  /\ handlerSupabase = ToSupabaseSync(appSupabase)
  /\ goroutines = {}
  /\ nextTid = 0
  /\ lastSink = "none"
  /\ crashed = FALSE
  /\ nOps = 0
  /\ lastOp = Call("none", <<>>, EmptyTable, FALSE, 0)
  /\ seen = NoHistory
  /\ fresh = NoHistory
  /\ NoApp
  /\ calls = NoCalls
  /\ PairedSession
  /\ NotApart
  /\ drafts = EmptyTable

\* everything a direct call leaves alone
CallFrame == UNCHANGED <<wiring, env, goroutines, nextTid, lastSink, crashed, history>>

\* store.UpsertMessage(m)
StoreUpsertMessage ==
  /\ StoreMayBeCalled
  /\ \E m \in StoreMessageArgs :
       /\ messages' = UpsertMessage(messages, m)
       /\ lastOp' = Call("UpsertMessage", m, messages, FALSE, 0)
  /\ nOps' = nOps + 1
  /\ UNCHANGED <<conversations, sink>>
  /\ CallFrame

\* store.UpsertConversation(c)
StoreUpsertConversation ==
  /\ StoreMayBeCalled
  /\ \E c \in StoreConversationArgs :
       /\ conversations' = UpsertConversation(conversations, c)
       /\ lastOp' = Call("UpsertConversation", c, conversations, FALSE, 0)
  /\ nOps' = nOps + 1
  /\ UNCHANGED <<messages, sink>>
  /\ CallFrame

\* store.UpdateConversationTimestamp(id, ts)
StoreUpdateConversationTimestamp ==
  /\ StoreMayBeCalled
  /\ \E id \in StoreConvIds, ts \in StoreTimestamps :
       /\ conversations' = UpdateConversationTimestamp(conversations, id, ts)
       /\ lastOp' = Call("UpdateConversationTimestamp",
                         [id |-> id, ts |-> ts], conversations, FALSE, 0)
  /\ nOps' = nOps + 1
  /\ UNCHANGED <<messages, sink>>
  /\ CallFrame

\* store.DeleteTmpMessages(conv)
StoreDeleteTmpMessages ==
  /\ StoreMayBeCalled
  /\ \E conv \in StoreConvIds :
       /\ messages' = DeleteTmpMessages(messages, conv).table
       /\ lastOp' = Call("DeleteTmpMessages", [conv |-> conv], messages, FALSE,
                         DeleteTmpMessages(messages, conv).n)
  /\ nOps' = nOps + 1
  /\ UNCHANGED <<conversations, sink>>
  /\ CallFrame

\* POST /rest/v1/rpc/upsert_conversation
RpcUpsertConversation ==
  /\ StoreMayBeCalled
  /\ \E id \in ConvIds, name \in RpcNames, time \in RpcTimes,
        group \in BOOLEAN, preview \in {"", "q"} :
       /\ sbConversations' =
            upsert_conversation(sbConversations, id, name, time, group, preview)
       /\ lastOp' = Call("upsert_conversation",
                         [p_conversation_id |-> id, p_name |-> name,
                          p_last_message_time |-> time, p_is_group |-> group,
                          p_last_message_preview |-> preview],
                         sbConversations, FALSE, 0)
  /\ nOps' = nOps + 1
  /\ UNCHANGED <<primary, sbMessages, sbContacts>>
  /\ CallFrame

\* POST /rest/v1/rpc/upsert_message; the insert fails on the foreign key
\* when the conversation is not there
RpcUpsertMessage ==
  /\ StoreMayBeCalled
  /\ \E id \in {IdReal1}, conv \in ConvIds, content \in RpcContents,
        fromMe \in BOOLEAN, mediaType \in RpcMediaTypes,
        mediaUrl \in RpcMediaUrls :
       /\ sbMessages' =
            IF ForeignKeyOK(sbConversations, conv)
              THEN upsert_message(sbMessages, id, conv, content, fromMe,
                                  mediaType, mediaUrl)
              ELSE sbMessages
       /\ lastOp' = Call("upsert_message",
                         [p_id |-> id, p_conversation_id |-> conv,
                          p_content |-> content, p_is_from_me |-> fromMe,
                          p_media_type |-> mediaType, p_media_url |-> mediaUrl],
                         sbMessages, ~ForeignKeyOK(sbConversations, conv), 0)
  /\ nOps' = nOps + 1
  /\ UNCHANGED <<primary, sbConversations, sbContacts>>
  /\ CallFrame

\* POST /rest/v1/rpc/upsert_contact
RpcUpsertContact ==
  /\ StoreMayBeCalled
  /\ \E number \in RpcNumbers, name \in RpcNames :
       /\ sbContacts' = upsert_contact(sbContacts, number, name)
       /\ lastOp' = Call("upsert_contact",
                         [p_number |-> number, p_name |-> name],
                         sbContacts, FALSE, 0)
  /\ nOps' = nOps + 1
  /\ UNCHANGED <<primary, sbConversations, sbMessages>>
  /\ CallFrame

NextStore ==
  \/ StoreUpsertMessage
  \/ StoreUpsertConversation
  \/ StoreUpdateConversationTimestamp
  \/ StoreDeleteTmpMessages
  \/ RpcUpsertConversation
  \/ RpcUpsertMessage
  \/ RpcUpsertContact

SpecStore == InitStore /\ [][NextStore]_vars

(***************************************************************************)
(* The *sql.DB handle of the Primary Store under concurrent callers.  A    *)
(* Store method runs one statement: database/sql takes a connection from   *)
(* the pool, waiting while MaxOpenConns are in use, executes the statement *)
(* on it and gives the connection back.                                    *)
(***************************************************************************)
\* db.SetMaxOpenConns(1)
MaxOpenConns == 1

\* the Store calls each caller makes
StatementsOf(p) ==
  CASE p = "handler" ->
         {[stmt |-> "UpsertMessage", arg |-> DbMessage(e)] : e \in BackfillMsgs}
    [] p = "backfill" ->
         {[stmt |-> "UpsertConversation", arg |-> DbConversation(c)] :
            c \in BackfillConvs}
    [] p = "deepBackfill" ->
         {[stmt |-> "UpsertMessage", arg |-> DbMessage(e)] : e \in BackfillMsgs}
    [] OTHER ->
         {[stmt |-> "UpsertMessage", arg |-> PlaceholderMessage("c1", "a")],
          [stmt |-> "GetMessagesByConversation", arg |-> "c1"]}

IsRead(stmt) == stmt = "GetMessagesByConversation"

\* callers whose statement holds a connection
Executing(cs) == {p \in Callers : cs[p].pc = "executing"}

\* a pool that opens a connection for whoever asks
PoolHasFreeConn_Unlimited(inUse) == TRUE

\* database/sql hands out a connection while fewer than MaxOpenConns are
\* in use
PoolHasFreeConn(inUse) == inUse < MaxOpenConns

\* a caller enters a Store method
StoreCallEnter ==
  /\ nOps < MaxStatements
  /\ \E p \in Callers :
       /\ calls[p].pc = "idle"
       /\ \E st \in StatementsOf(p) :
            calls' = [calls EXCEPT ![p] = [pc |-> "waiting", stmt |-> st.stmt,
                                           arg |-> st.arg]]
  /\ nOps' = nOps + 1
  /\ UNCHANGED <<primary, sink, wiring, link, web, auth, apart, goroutines, nextTid, lastSink,
                 crashed, lastOp, history>>

\* database/sql gives the caller a connection
ConnAcquire ==
  /\ \E p \in Callers :
       /\ calls[p].pc = "waiting"
       /\ PoolHasFreeConn(Cardinality(Executing(calls)))
       /\ calls' = [calls EXCEPT ![p].pc = "executing"]
  /\ UNCHANGED <<primary, sink, wiring, link, web, auth, apart, goroutines, nextTid, lastSink,
                 crashed, nOps, lastOp, history>>

\* the statement completes and the connection goes back to the pool
StatementDone ==
  /\ \E p \in Callers :
       /\ calls[p].pc = "executing"
       /\ messages' = IF calls[p].stmt = "UpsertMessage"
                        THEN UpsertMessage(messages, calls[p].arg)
                        ELSE messages
       /\ conversations' = IF calls[p].stmt = "UpsertConversation"
                             THEN UpsertConversation(conversations, calls[p].arg)
                             ELSE conversations
       /\ lastOp' = Call(calls[p].stmt, calls[p].arg,
                         IF calls[p].stmt = "UpsertConversation"
                           THEN conversations ELSE messages, FALSE, 0)
       /\ calls' = [calls EXCEPT ![p] = NoCall]
  /\ UNCHANGED <<sink, wiring, link, web, auth, apart, goroutines, nextTid, lastSink, crashed,
                 nOps, history>>

InitPool ==
  /\ \E rs \in SUBSET SeedRows : messages = SeedMessages(rs)
  /\ conversations = EmptyTable
  /\ sbConversations = EmptyTable
  /\ sbMessages = EmptyTable
  /\ sbContacts = EmptyTable
  /\ appSupabase = NewWriter(FALSE)
  /\ handlerSupabase = ToSupabaseSync(appSupabase)
  /\ goroutines = {}
  /\ nextTid = 0
  /\ lastSink = "none"
  /\ crashed = FALSE
  /\ nOps = 0
  /\ lastOp = Call("none", <<>>, EmptyTable, FALSE, 0)
  /\ seen = NoHistory
  /\ fresh = NoHistory
  /\ LoadAndConnectReturned
  /\ calls = NoCalls
  /\ PairedSession
  /\ NotApart
  /\ drafts = EmptyTable

NextPool ==
  \/ StoreCallEnter
  \/ ConnAcquire
  \/ StatementDone

SpecPool == InitPool /\ [][NextPool]_vars

(***************************************************************************)
(* Read interfaces over the messages table: the JSON endpoints of the web  *)
(* API and the MCP tools.  Rows carry every field of db.Message.           *)
(***************************************************************************)
IdReal2 == <<"m", "2">>
BodyHi == <<"h", "i">>
BodyEmpty == <<>>

\* hex-encoded media keys; "" for a message without media
MediaKeys == {"k1", "k2"}

\* db.Message rows an earlier run may have stored
StoredMessages ==
  { [MessageID |-> id, ConversationID |-> ConvOf(id), SenderName |-> "",
     SenderNumber |-> "+1555", Body |-> b, TimestampMS |-> 1000,
     Status |-> "delivered", IsFromMe |-> FALSE, MediaID |-> md[1],
     MimeType |-> md[2], DecryptionKey |-> md[3], Reactions |-> "",
     ReplyToID |-> ""] :
       id \in {IdReal1, IdReal2}, b \in {BodyHi, BodyEmpty},
       md \in {<<"", "", "">>} \cup {<<"media1", "img", k>> : k \in MediaKeys} }

\* the fields of db.Message encoding/json always writes, and those tagged
\* omitempty; DecryptionKey is tagged "-"
AlwaysFields ==
  {"MessageID", "ConversationID", "SenderName", "SenderNumber", "Body",
   "TimestampMS", "Status", "IsFromMe"}
OmitEmptyFields == {"MediaID", "MimeType", "Reactions", "ReplyToID"}

\* a db.Message whose DecryptionKey field has an ordinary omitempty tag
JSONFields_KeyTagged(m) ==
  AlwaysFields \cup {f \in OmitEmptyFields \cup {"DecryptionKey"} : m[f] # ""}

\* the fields of a db.Message that json.NewEncoder(w).Encode writes
JSONFields(m) == AlwaysFields \cup {f \in OmitEmptyFields : m[f] # ""}

\* writeJSON of one message
JSONMessage(m) == [f \in JSONFields(m) |-> m[f]]

\* strings.Contains / SQL LIKE '%q%' on sequences of characters
Contains(str, q) ==
  \E i \in 1..(Len(str) - Len(q) + 1) : SubSeq(str, i, i + Len(q) - 1) = q

\* sender shown by the MCP tools
ToolSender(m) ==
  IF m.SenderName # "" THEN m.SenderName
  ELSE IF m.SenderNumber # "" THEN m.SenderNumber ELSE "Unknown"

\* one line of get_messages / search_messages output
ToolLine(m, withConv) ==
  [ts |-> FormatRFC3339(m.TimestampMS),
   direction |-> IF m.IsFromMe THEN "to" ELSE "from",
   sender |-> ToolSender(m),
   conv |-> IF withConv THEN m.ConversationID ELSE "",
   body |-> m.Body]

ReadKinds ==
  {"/api/conversations/{id}/messages", "/api/search", "get_messages",
   "search_messages"}

\* the rows each read selects
Selected(kind, arg, msgs) ==
  CASE kind = "/api/conversations/{id}/messages" ->
         {id \in DOMAIN msgs : msgs[id].ConversationID = arg}
    [] kind = "get_messages" ->
         {id \in DOMAIN msgs : arg = "" \/ msgs[id].SenderNumber = arg}
    [] OTHER ->
         {id \in DOMAIN msgs : Contains(msgs[id].Body, arg)}

\* the response of a read; the order of the rows is left out
Respond(kind, arg, msgs) ==
  CASE kind \in {"/api/conversations/{id}/messages", "/api/search"} ->
         {JSONMessage(msgs[id]) : id \in Selected(kind, arg, msgs)}
    [] OTHER ->
         {ToolLine(msgs[id], kind = "search_messages") :
            id \in Selected(kind, arg, msgs)}

\* everything a read leaves alone
ReadFrame ==
  UNCHANGED <<primary, sink, wiring, env, goroutines, nextTid, lastSink,
              crashed, nOps, history>>

Read(kind, arg) ==
  lastOp' = [kind |-> kind, args |-> arg,
             response |-> Respond(kind, arg, messages)]

\* GET /api/conversations/{id}/messages
ApiConversationMessages ==
  /\ \E conv \in ConvIds : Read("/api/conversations/{id}/messages", conv)
  /\ ReadFrame

\* GET /api/search?q=
ApiSearch ==
  /\ \E q \in {<<"h">>, <<"k">>} : Read("/api/search", q)
  /\ ReadFrame

\* MCP tool get_messages
ToolGetMessages ==
  /\ \E phone \in {"", "+1555"} : Read("get_messages", phone)
  /\ ReadFrame

\* MCP tool search_messages
ToolSearchMessages ==
  /\ \E q \in {<<"h">>, <<"k">>} : Read("search_messages", q)
  /\ ReadFrame

InitRead ==
  /\ \E rs \in SUBSET StoredMessages :
       /\ \A r1 \in rs, r2 \in rs : r1.MessageID = r2.MessageID => r1 = r2
       /\ messages = [id \in {r.MessageID : r \in rs} |->
                        CHOOSE r \in rs : r.MessageID = id]
  /\ conversations = EmptyTable
  /\ sbConversations = EmptyTable
  /\ sbMessages = EmptyTable
  /\ sbContacts = EmptyTable
  /\ appSupabase = NewWriter(FALSE)
  /\ handlerSupabase = ToSupabaseSync(appSupabase)
  /\ goroutines = {}
  /\ nextTid = 0
  /\ lastSink = "none"
  /\ crashed = FALSE
  /\ nOps = 0
  /\ lastOp = [kind |-> "none", args |-> <<>>, response |-> {}]
  /\ seen = NoHistory
  /\ fresh = NoHistory
  /\ LoadAndConnectReturned
  /\ calls = NoCalls
  /\ PairedSession
  /\ NotApart
  /\ drafts = EmptyTable

NextRead ==
  \/ ApiConversationMessages
  \/ ApiSearch
  \/ ToolGetMessages
  \/ ToolSearchMessages

SpecRead == InitRead /\ [][NextRead]_vars

(***************************************************************************)
(* The send endpoints, whole: POST /api/send, /api/send-media and          *)
(* /api/drafts/send from the request to the response, with the requests    *)
(* they reject and the answers SendMessage can give.                       *)
(***************************************************************************)
\* gmproto.SendMessageResponse statuses SendMessage can return
SendStatuses == {"SUCCESS", "UNKNOWN", "FAILURE_2"}

\* what the phone link does to the calls of one request: UploadMedia and
\* GetConversation return a value or an error, SendMessage a response or an
\* error
RpcOutcomes ==
  [upload : {"ok", "err"}, getConv : {"ok", "err"},
   send : SendStatuses \cup {"err"}]

\* the id a draft row is stored under, and one no row is stored under
DraftIds == {"d1", "d2"}

\* the draft an earlier POST /api/drafts may have left
SeedDraft == [ConversationID |-> "c1", Body |-> "a"]

\* a conversation an earlier event has left, older than any send
WebConversation ==
  [ConversationID |-> "c1", Name |-> "A", IsGroup |-> FALSE,
   LastMessageTS |-> 1000, UnreadCount |-> 0]

\* Store.GetDraft: the row in a set, or the empty set for the nil it returns
\* when there is none
GetDraft(tbl, id) == IF id \in DOMAIN tbl THEN {tbl[id]} ELSE {}

\* Store.DeleteDraft
DeleteDraft(tbl, id) == Drop(tbl, {id})

\* an answer of httpError, and the answer written after SendMessage returned
HttpError(code) == [code |-> code, status |-> ""]
Responded(status) == [code |-> 200, status |-> status]

\* the calls every send handler makes once the request is accepted
SendViaClient(rpc) ==
  IF rpc.getConv = "err" THEN HttpError(502)
  ELSE IF rpc.send = "err" THEN HttpError(502)
  ELSE Responded(rpc.send)

\* /api/send up to its response
SendOutcome(req, c, rpc) ==
  IF req.method # "POST" THEN HttpError(405)
  ELSE IF req.badBody THEN HttpError(400)
  ELSE IF req.conversation_id = "" \/ req.message = "" THEN HttpError(400)
  ELSE IF c = "nil" THEN HttpError(503)
  ELSE SendViaClient(rpc)

\* /api/send-media up to its response; the client is looked at first
SendMediaOutcome(req, c, rpc) ==
  IF req.method # "POST" THEN HttpError(405)
  ELSE IF c = "nil" THEN HttpError(503)
  ELSE IF req.badBody THEN HttpError(400)
  ELSE IF req.conversation_id = "" THEN HttpError(400)
  ELSE IF ~req.hasFile THEN HttpError(400)
  ELSE IF req.readErr THEN HttpError(500)
  ELSE IF rpc.upload = "err" THEN HttpError(502)
  ELSE SendViaClient(rpc)

\* /api/drafts/send up to its response
DraftSendOutcome(req, c, rpc, tbl, getErr) ==
  IF req.method # "POST" THEN HttpError(405)
  ELSE IF req.badBody THEN HttpError(400)
  ELSE IF req.draft_id = "" \/ req.body = "" THEN HttpError(400)
  ELSE IF c = "nil" THEN HttpError(503)
  ELSE IF getErr THEN HttpError(500)
  ELSE IF GetDraft(tbl, req.draft_id) = {} THEN HttpError(404)
  ELSE SendViaClient(rpc)

\* a handler that stores after any answer of SendMessage
SendSucceeded_AnyResponse(status) == TRUE

\* success := resp.GetStatus() == gmproto.SendMessageResponse_SUCCESS
SendSucceeded(status) == status = "SUCCESS"

\* the handler goes on to the store
StoresSent(out) == out.code = 200 /\ SendSucceeded(out.status)

\* the placeholder row /api/send-media stores
MediaPlaceholderMessage(conv) ==
  [MessageID |-> SendTmpId(conv), ConversationID |-> conv, Body |-> "",
   MimeType |-> "image/jpeg", IsFromMe |-> TRUE]

SendRequests ==
  [method : {"POST", "GET"}, badBody : BOOLEAN,
   conversation_id : ConvIds \cup {""}, message : {"", "a"}]

SendMediaRequests ==
  [method : {"POST", "GET"}, badBody : BOOLEAN,
   conversation_id : ConvIds \cup {""}, hasFile : BOOLEAN, readErr : BOOLEAN]

DraftSendRequests ==
  [method : {"POST", "GET"}, badBody : BOOLEAN,
   draft_id : DraftIds \cup {""}, body : {"", "b"}]

SendKinds == {"/api/send", "/api/send-media", "/api/drafts/send"}

\* what a send handler leaves alone
SendFrame ==
  /\ nOps' = nOps + 1
  /\ UNCHANGED <<sink, wiring, link, calls, cli, auth, apart, goroutines, nextTid,
                 lastSink, crashed, history>>

\* the two store calls after a successful send; their errors are dropped
StoreSent(m, now, upsertErr, bumpErr) ==
  /\ messages' = IF upsertErr THEN messages ELSE UpsertMessage(messages, m)
  /\ conversations' =
       IF bumpErr THEN conversations
       ELSE UpdateConversationTimestamp(conversations, m.ConversationID, now)

PostApiSend ==
  /\ nOps < MaxOps
  /\ \E req \in SendRequests, rpc \in RpcOutcomes, now \in NowMS,
        upsertErr \in BOOLEAN, bumpErr \in BOOLEAN :
       LET out == SendOutcome(req, cli, rpc) IN
       \* rand.Int63n(1e12) of BuildSendPayload yields an id no row has
       /\ out.code = 200 => SendTmpId(req.conversation_id) \notin DOMAIN messages
       /\ (upsertErr \/ bumpErr) => StoresSent(out)
       /\ IF StoresSent(out)
            THEN StoreSent(PlaceholderMessage(req.conversation_id, req.message),
                           now, upsertErr, bumpErr)
            ELSE UNCHANGED primary
       /\ lastOp' = [kind |-> "/api/send", code |-> out.code,
                     status |-> out.status]
  /\ UNCHANGED drafts
  /\ SendFrame

PostApiSendMedia ==
  /\ nOps < MaxOps
  /\ \E req \in SendMediaRequests, rpc \in RpcOutcomes, now \in NowMS,
        upsertErr \in BOOLEAN, bumpErr \in BOOLEAN :
       LET out == SendMediaOutcome(req, cli, rpc) IN
       /\ out.code = 200 => SendTmpId(req.conversation_id) \notin DOMAIN messages
       /\ (upsertErr \/ bumpErr) => StoresSent(out)
       /\ IF StoresSent(out)
            THEN StoreSent(MediaPlaceholderMessage(req.conversation_id),
                           now, upsertErr, bumpErr)
            ELSE UNCHANGED primary
       /\ lastOp' = [kind |-> "/api/send-media", code |-> out.code,
                     status |-> out.status]
  /\ UNCHANGED drafts
  /\ SendFrame

PostApiDraftsSend ==
  /\ nOps < MaxOps
  /\ \E req \in DraftSendRequests, rpc \in RpcOutcomes, now \in NowMS,
        getErr \in BOOLEAN, upsertErr \in BOOLEAN, bumpErr \in BOOLEAN,
        deleteErr \in BOOLEAN :
       LET out == DraftSendOutcome(req, cli, rpc, drafts, getErr)
           draft == CHOOSE d \in GetDraft(drafts, req.draft_id) : TRUE
       IN
       /\ out.code = 200 => SendTmpId(draft.ConversationID) \notin DOMAIN messages
       /\ (upsertErr \/ bumpErr \/ deleteErr) => StoresSent(out)
       /\ IF StoresSent(out)
            THEN /\ StoreSent(PlaceholderMessage(draft.ConversationID, req.body),
                              now, upsertErr, bumpErr)
                 /\ drafts' = IF deleteErr THEN drafts
                              ELSE DeleteDraft(drafts, req.draft_id)
            ELSE UNCHANGED <<primary, drafts>>
       /\ lastOp' = [kind |-> "/api/drafts/send", code |-> out.code,
                     status |-> out.status]
  /\ SendFrame

\* a server whose client may be missing, over a store earlier requests and
\* events may have filled
InitWeb ==
  /\ \E withConv \in BOOLEAN :
       conversations = IF withConv
                         THEN UpsertConversation(EmptyTable, WebConversation)
                         ELSE EmptyTable
  /\ \E withMsg \in BOOLEAN :
       messages = IF withMsg
                    THEN SeedMessages({r \in SeedRows : r.MessageID = IdReal1})
                    ELSE EmptyTable
  /\ \E withDraft \in BOOLEAN :
       drafts = IF withDraft THEN Put(EmptyTable, "d1", SeedDraft)
                ELSE EmptyTable
  /\ cli \in {"nil", "client"}
  /\ sbConversations = EmptyTable
  /\ sbMessages = EmptyTable
  /\ sbContacts = EmptyTable
  /\ appSupabase = NewWriter(FALSE)
  /\ handlerSupabase = ToSupabaseSync(appSupabase)
  /\ goroutines = {}
  /\ nextTid = 0
  /\ lastSink = "none"
  /\ crashed = FALSE
  /\ nOps = 0
  /\ lastOp = [kind |-> "none", code |-> 0, status |-> ""]
  /\ seen = NoHistory
  /\ fresh = NoHistory
  /\ connected = (cli # "nil")
  /\ loadPc = IF cli # "nil" THEN "done" ELSE "none"
  /\ nConnect = IF cli # "nil" THEN 1 ELSE 0
  /\ nDisconnect = 0
  /\ calls = NoCalls
  /\ PairedSession
  /\ NotApart

NextWeb ==
  \/ PostApiSend
  \/ PostApiSendMedia
  \/ PostApiDraftsSend

SpecWeb == InitWeb /\ [][NextWeb]_vars

(***************************************************************************)
(* The ids of outgoing sends (BuildSendPayload, BuildSendMediaPayload),    *)
(* digit by digit.  rand.Int63n(1e12) exceeds the checker's integers, so   *)
(* its result is held as two decimal limbs of TmpDigits / 2 digits each.   *)
(***************************************************************************)
\* the width of %012d
TmpDigits == 12

\* values of one limb: the smallest, a one-digit and a two-digit one, the
\* largest
RandLimbs == {0, 7, 10, 10^(TmpDigits \div 2) - 1}

\* results of rand.Int63n(1e12), hi * 10^6 + lo
Int63n == [hi : RandLimbs, lo : RandLimbs]

DigitChar(d) == <<"0", "1", "2", "3", "4", "5", "6", "7", "8", "9">>[d + 1]
DecimalDigits == {DigitChar(d) : d \in 0..9}

RECURSIVE Digits(_)
\* %d of a natural number
Digits(n) ==
  IF n < 10 THEN <<DigitChar(n)>>
  ELSE Digits(n \div 10) \o <<DigitChar(n % 10)>>

RECURSIVE PadZero_Shorter(_, _)
\* zero padding to one digit less
PadZero_Shorter(ds, w) ==
  IF Len(ds) >= w - 1 THEN ds ELSE PadZero_Shorter(<<"0">> \o ds, w)

RECURSIVE PadZero(_, _)
\* the 0 flag with a width: zeros on the left up to w characters
PadZero(ds, w) == IF Len(ds) >= w THEN ds ELSE PadZero(<<"0">> \o ds, w)

\* %d of hi * 10^6 + lo
Decimal(n) ==
  IF n.hi = 0 THEN Digits(n.lo)
  ELSE Digits(n.hi) \o PadZero(Digits(n.lo), TmpDigits \div 2)

\* fmt.Sprintf("tmp_%012d", n)
SprintfTmp(n) == TmpPrefix \o PadZero(Decimal(n), TmpDigits)

\* the three TmpID fields of the request BuildSendPayload returns
BuildSendPayload(conv, n) ==
  LET tmpID == SprintfTmp(n) IN
  [ConversationID |-> conv, TmpID |-> tmpID,
   MessagePayload |-> [TmpID |-> tmpID, TmpID2 |-> tmpID,
                       ConversationID |-> conv]]

\* BuildSendMediaPayload fills them the same way
BuildSendMediaPayload(conv, n) ==
  LET tmpID == SprintfTmp(n) IN
  [ConversationID |-> conv, TmpID |-> tmpID,
   MessagePayload |-> [TmpID |-> tmpID, TmpID2 |-> tmpID,
                       ConversationID |-> conv]]

BuildKinds == {"BuildSendPayload", "BuildSendMediaPayload"}

\* what a send leaves alone
BuildFrame ==
  /\ nOps' = nOps + 1
  /\ UNCHANGED <<conversations, sink, wiring, env, goroutines, nextTid,
                 lastSink, crashed, history>>

\* /api/send and /api/drafts/send after SendMessage answered SUCCESS: the
\* row is stored under payload.TmpID
SendBuiltPayload ==
  /\ nOps < MaxOps
  /\ \E conv \in ConvIds, n \in Int63n :
       LET payload == BuildSendPayload(conv, n) IN
       /\ messages' = UpsertMessage(messages,
                        [MessageID |-> payload.TmpID, ConversationID |-> conv,
                         Body |-> "a", MimeType |-> "", IsFromMe |-> TRUE])
       /\ lastOp' = [kind |-> "BuildSendPayload", payload |-> payload]
  /\ BuildFrame

\* /api/send-media after SendMessage answered SUCCESS
SendBuiltMediaPayload ==
  /\ nOps < MaxOps
  /\ \E conv \in ConvIds, n \in Int63n :
       LET payload == BuildSendMediaPayload(conv, n) IN
       /\ messages' = UpsertMessage(messages,
                        [MessageID |-> payload.TmpID, ConversationID |-> conv,
                         Body |-> "", MimeType |-> "image/jpeg",
                         IsFromMe |-> TRUE])
       /\ lastOp' = [kind |-> "BuildSendMediaPayload", payload |-> payload]
  /\ BuildFrame

InitBuild ==
  /\ conversations = EmptyTable
  /\ messages = EmptyTable
  /\ sbConversations = EmptyTable
  /\ sbMessages = EmptyTable
  /\ sbContacts = EmptyTable
  /\ appSupabase = NewWriter(FALSE)
  /\ handlerSupabase = ToSupabaseSync(appSupabase)
  /\ goroutines = {}
  /\ nextTid = 0
  /\ lastSink = "none"
  /\ crashed = FALSE
  /\ nOps = 0
  /\ lastOp = [kind |-> "none", payload |-> <<>>]
  /\ seen = NoHistory
  /\ fresh = NoHistory
  /\ LoadAndConnectReturned
  /\ calls = NoCalls
  /\ PairedSession
  /\ NotApart
  /\ drafts = EmptyTable

NextBuild ==
  \/ SendBuiltPayload
  \/ SendBuiltMediaPayload

SpecBuild == InitBuild /\ [][NextBuild]_vars

(***************************************************************************)
(* Token refresh (EventHandler.handleAuthRefresh) next to the message      *)
(* events of the same stream.                                              *)
(***************************************************************************)
\* client.SaveSession: the file holds the data when it returns nil; when it
\* returns an error the file is as it was or is left half written
SaveSession(file, data, saveErr, halfWritten) ==
  IF ~saveErr THEN data
  ELSE IF halfWritten THEN "partial" ELSE file

\* the handler reaches SaveSession
AuthRefreshSaves(client, path, dataErr) ==
  client # "nil" /\ path # "" /\ ~dataErr

\* the session file after handleAuthRefresh
handleAuthRefresh(file, client, path, data, dataErr, saveErr, halfWritten) ==
  IF AuthRefreshSaves(client, path, dataErr)
    THEN SaveSession(file, data, saveErr, halfWritten)
    ELSE file

\* a handler that treats a failed save as fatal
AuthRefreshFatal_OnError(err) == err

\* both errors are logged and the handler returns
AuthRefreshFatal(err) == FALSE

\* case *events.AuthTokenRefreshed
HandleAuthTokenRefreshed ==
  /\ HandlerMayRun
  /\ \E data \in SessionDatas, dataErr \in BOOLEAN, saveErr \in BOOLEAN,
        halfWritten \in BOOLEAN :
       \* an error needs the call that returns it
       /\ dataErr => (cli # "nil" /\ sessionPath # "")
       /\ saveErr => AuthRefreshSaves(cli, sessionPath, dataErr)
       /\ halfWritten => saveErr
       /\ sessionFile' = handleAuthRefresh(sessionFile, cli, sessionPath, data,
                                           dataErr, saveErr, halfWritten)
       /\ crashed' = (crashed \/ AuthRefreshFatal(dataErr \/ saveErr))
       /\ lastOp' = [kind |-> "AuthTokenRefreshed", data |-> data,
                     dataErr |-> dataErr, saveErr |-> saveErr,
                     saved |-> AuthRefreshSaves(cli, sessionPath, dataErr)
                                 /\ ~saveErr]
  /\ nOps' = nOps + 1
  /\ UNCHANGED <<primary, sink, wiring, link, calls, web, sessionPath, apart,
                 goroutines, nextTid, lastSink, history>>

\* a handler built with or without a client and a session path
InitAuth ==
  /\ conversations = EmptyTable
  /\ messages = EmptyTable
  /\ sbConversations = EmptyTable
  /\ sbMessages = EmptyTable
  /\ sbContacts = EmptyTable
  /\ \E configured \in BOOLEAN : appSupabase = NewWriter(configured)
  /\ handlerSupabase = ToSupabaseSync(appSupabase)
  /\ goroutines = {}
  /\ nextTid = 0
  /\ lastSink = "none"
  /\ crashed = FALSE
  /\ nOps = 0
  /\ lastOp = NoOp
  /\ seen = NoHistory
  /\ fresh = NoHistory
  /\ cli \in {"nil", "client"}
  /\ connected = (cli # "nil")
  /\ loadPc = IF cli # "nil" THEN "done" ELSE "none"
  /\ nConnect = IF cli # "nil" THEN 1 ELSE 0
  /\ nDisconnect = 0
  /\ calls = NoCalls
  /\ drafts = EmptyTable
  /\ sessionFile = "s0"
  /\ sessionPath \in {"", "session.json"}
  /\ NotApart

NextAuth ==
  \/ HandleAuthTokenRefreshed
  \/ HandleMessageReceived
  \/ RunMessageGoroutine

SpecAuth == InitAuth /\ [][NextAuth]_vars

(***************************************************************************)
(* Normalisation of a message payload (handleMessage up to the upsert),    *)
(* with the optional parts of gmproto.Message present or absent and the    *)
(* status column of the messages table.  An absent part is the empty set.  *)
(***************************************************************************)
\* gmproto.Message: MessageInfo is the list of text parts, MessageStatus,
\* SenderParticipant and Media hold at most one value
RawMessages ==
  [MessageID : {IdReal1, IdTmp1}, ConversationID : {"c1"},
   MessageInfo : {<<>>, <<"", "a">>},
   MessageStatus : {{}, {"INCOMING_COMPLETE"}},
   SenderParticipant : {{}, {[IsMe |-> FALSE]}, {[IsMe |-> TRUE]}},
   Media : {{}, {"img"}}]

\* a payload with none of its optional content: no text part, no status, no
\* media
IsBare(msg) ==
  msg.MessageInfo = <<>> /\ msg.MessageStatus = {} /\ msg.Media = {}

RECURSIVE FirstNonEmpty(_)
FirstNonEmpty(parts) ==
  IF parts = <<>> THEN ""
  ELSE IF Head(parts) # "" THEN Head(parts)
  ELSE FirstNonEmpty(Tail(parts))

\* ExtractMessageBody: the first non-empty text part, or ""
ExtractMessageBody(msg) == FirstNonEmpty(msg.MessageInfo)

\* ExtractMediaInfo(msg).MimeType, "" when there is no media
ExtractMimeType(msg) ==
  IF msg.Media = {} THEN "" ELSE CHOOSE m \in msg.Media : TRUE

\* a status that defaults to the empty string
MessageStatusString_Empty(msg) ==
  IF msg.MessageStatus = {} THEN "" ELSE CHOOSE s \in msg.MessageStatus : TRUE

\* status := "unknown"; if ms := msg.GetMessageStatus(); ms != nil { ... }
MessageStatusString(msg) ==
  IF msg.MessageStatus = {} THEN "unknown"
  ELSE CHOOSE s \in msg.MessageStatus : TRUE

\* msg.GetSenderParticipant() != nil && msg.GetSenderParticipant().GetIsMe()
SenderIsMe(msg) ==
  msg.SenderParticipant # {} /\ (CHOOSE p \in msg.SenderParticipant : TRUE).IsMe

\* the payload as the event records of the sections above carry it
Normalize(msg) ==
  [MessageID |-> msg.MessageID, ConversationID |-> msg.ConversationID,
   Body |-> ExtractMessageBody(msg), MimeType |-> ExtractMimeType(msg),
   IsMe |-> SenderIsMe(msg)]

\* the status column: every upsert overwrites it
WithStatus(tbl, id, status) ==
  IF id \in DOMAIN tbl
    THEN Put(tbl, id, [ConversationID |-> tbl[id].ConversationID,
                       Body |-> tbl[id].Body, MimeType |-> tbl[id].MimeType,
                       IsFromMe |-> tbl[id].IsFromMe, Status |-> status])
    ELSE tbl

\* case *libgm.WrappedMessage, from the raw payload
HandleRawMessage ==
  /\ HandlerMayRun
  /\ \E msg \in RawMessages, upsertErr \in BOOLEAN, sweepErr \in BOOLEAN :
       LET evt == Normalize(msg)
           dbMsg == DbMessage(evt)
           spawn == HandlerSpawns(upsertErr, handlerSupabase)
       IN
       /\ sweepErr => (~upsertErr /\ IsConfirmedFromMe(dbMsg))
       /\ messages' =
            IF upsertErr THEN messages
            ELSE WithStatus(handleMessageStore(messages, evt, upsertErr, sweepErr),
                            dbMsg.MessageID, MessageStatusString(msg))
       /\ goroutines' =
            IF spawn
              THEN goroutines \cup {MessageGoroutine(nextTid, "handler", dbMsg)}
              ELSE goroutines
       /\ nextTid' = IF spawn THEN nextTid + 1 ELSE nextTid
       /\ lastOp' = [kind |-> "handleRawMessage", msg |-> msg,
                     upsertErr |-> upsertErr]
  /\ nOps' = nOps + 1
  /\ UNCHANGED <<conversations, sink, wiring, env, lastSink, crashed, history>>

InitNormalize ==
  /\ conversations = EmptyTable
  /\ messages = EmptyTable
  /\ sbConversations = EmptyTable
  /\ sbMessages = EmptyTable
  /\ sbContacts = EmptyTable
  /\ \E configured \in BOOLEAN : appSupabase = NewWriter(configured)
  /\ handlerSupabase = ToSupabaseSync(appSupabase)
  /\ goroutines = {}
  /\ nextTid = 0
  /\ lastSink = "none"
  /\ crashed = FALSE
  /\ nOps = 0
  /\ lastOp = [kind |-> "none", msg |-> <<>>, upsertErr |-> FALSE]
  /\ seen = NoHistory
  /\ fresh = NoHistory
  /\ LoadAndConnectReturned
  /\ calls = NoCalls
  /\ PairedSession
  /\ NotApart
  /\ drafts = EmptyTable

NextNormalize ==
  \/ HandleRawMessage
  \/ RunMessageGoroutine

SpecNormalize == InitNormalize /\ [][NextNormalize]_vars

(***************************************************************************)
(* Store.GetMessages over a store filled the way its unit test fills it.   *)
(***************************************************************************)
\* the rows of TestGetMessages_Filters, and one that shares a timestamp
QueryRows ==
  { [MessageID |-> "m1", ConversationID |-> "c1", SenderNumber |-> "+1111",
     Body |-> "A", TimestampMS |-> 1000],
    [MessageID |-> "m2", ConversationID |-> "c1", SenderNumber |-> "+2222",
     Body |-> "B", TimestampMS |-> 2000],
    [MessageID |-> "m3", ConversationID |-> "c1", SenderNumber |-> "+1111",
     Body |-> "C", TimestampMS |-> 3000],
    [MessageID |-> "m4", ConversationID |-> "c2", SenderNumber |-> "+1111",
     Body |-> "D", TimestampMS |-> 4000],
    [MessageID |-> "m5", ConversationID |-> "c2", SenderNumber |-> "+3333",
     Body |-> "E", TimestampMS |-> 5000],
    [MessageID |-> "m6", ConversationID |-> "c1", SenderNumber |-> "+2222",
     Body |-> "F", TimestampMS |-> 4000] }

\* arguments of the calls
QueryPhones == {"", "+1111", "+9999"}
QueryAfter == {0, 1500, 2000, 3000}
QueryBefore == {0, 2000, 3500, 4000}
QueryLimits == {1, 2, 100}

\* sender_number = ? when a phone number is given
SenderMatches(row, phone) == phone = "" \/ row.SenderNumber = phone

\* a range that leaves its two ends out
InRange_Exclusive(ts, after, before) ==
  /\ after = 0 \/ ts > after
  /\ before = 0 \/ ts < before

\* timestamp_ms >= after and timestamp_ms <= before, each only when given
InRange(ts, after, before) ==
  /\ after = 0 \/ ts >= after
  /\ before = 0 \/ ts <= before

\* WHERE
Where(msgs, phone, after, before) ==
  {id \in DOMAIN msgs :
     /\ SenderMatches(msgs[id], phone)
     /\ InRange(msgs[id].TimestampMS, after, before)}

RECURSIVE OrderByTimestampDesc(_, _)
\* ORDER BY timestamp_ms DESC: every order the rows can come back in, rows
\* with equal timestamps in either order
OrderByTimestampDesc(msgs, ids) ==
  IF ids = {} THEN {<<>>}
  ELSE UNION { {<<m>> \o rest : rest \in OrderByTimestampDesc(msgs, ids \ {m})} :
               m \in {x \in ids : \A y \in ids :
                        msgs[x].TimestampMS >= msgs[y].TimestampMS} }

\* LIMIT ?
Limit(rows, n) == SubSeq(rows, 1, IF n < Len(rows) THEN n ELSE Len(rows))

\* the id lists Store.GetMessages(phone, after, before, limit) can return
GetMessages(msgs, phone, after, before, limit) ==
  {Limit(rows, limit) :
     rows \in OrderByTimestampDesc(msgs, Where(msgs, phone, after, before))}

\* store.GetMessages(...) called on the store
StoreGetMessages ==
  /\ \E phone \in QueryPhones, after \in QueryAfter, before \in QueryBefore,
        limit \in QueryLimits :
       \E result \in GetMessages(messages, phone, after, before, limit) :
         lastOp' = [kind |-> "GetMessages",
                    args |-> [phone |-> phone, after |-> after,
                              before |-> before, limit |-> limit],
                    result |-> result]
  /\ UNCHANGED <<primary, sink, wiring, env, goroutines, nextTid, lastSink,
                 crashed, nOps, history>>

InitQuery ==
  /\ \E rs \in SUBSET QueryRows :
       messages = [id \in {r.MessageID : r \in rs} |->
                     CHOOSE r \in rs : r.MessageID = id]
  /\ conversations = EmptyTable
  /\ sbConversations = EmptyTable
  /\ sbMessages = EmptyTable
  /\ sbContacts = EmptyTable
  /\ appSupabase = NewWriter(FALSE)
  /\ handlerSupabase = ToSupabaseSync(appSupabase)
  /\ goroutines = {}
  /\ nextTid = 0
  /\ lastSink = "none"
  /\ crashed = FALSE
  /\ nOps = 0
  /\ lastOp = [kind |-> "none", args |-> <<>>, result |-> <<>>]
  /\ seen = NoHistory
  /\ fresh = NoHistory
  /\ NoApp
  /\ calls = NoCalls
  /\ PairedSession
  /\ NotApart
  /\ drafts = EmptyTable

\* the store is only read
NextQuery == StoreGetMessages

SpecQuery == InitQuery /\ [][NextQuery]_vars

(***************************************************************************)
(* One send through /api/send next to the event stream.  The HTTP handler  *)
(* runs in its own goroutine: between cli.GM.SendMessage returning and the *)
(* placeholder insert the event handler may run.                           *)
(***************************************************************************)
\* the server's confirmation of the send: the message under its final id
Confirmation(body) ==
  [MessageID |-> IdReal2, ConversationID |-> "c1", Body |-> body,
   MimeType |-> "", IsMe |-> TRUE]

\* the HTTP handler after SendMessage has answered SUCCESS for the body
SendReturned(body) == [pc |-> "sent", stmt |-> "UpsertMessage", arg |-> body]

\* the HTTP handler after it has written its response
SendDone(body) == [pc |-> "done", stmt |-> "none", arg |-> body]

\* /api/send up to resp, err := cli.GM.SendMessage(payload) with status
\* SUCCESS; the phone has the message from here on
ApiSendReturns ==
  /\ nOps < MaxOps
  /\ cli # "nil"
  /\ calls["http"] = NoCall
  /\ \E body \in {"a", "b"} :
       calls' = [calls EXCEPT !["http"] = SendReturned(body)]
  /\ nOps' = nOps + 1
  /\ UNCHANGED <<primary, sink, wiring, link, web, auth, apart, goroutines, nextTid,
                 lastSink, crashed, lastOp, history>>

\* /api/send from `if success` to the response: placeholder insert and
\* recency bump
ApiSendStores ==
  /\ calls["http"].pc = "sent"
  /\ \E now \in NowMS :
       LET body == calls["http"].arg IN
       /\ messages' = UpsertMessage(messages, PlaceholderMessage("c1", body))
       /\ conversations' = UpdateConversationTimestamp(conversations, "c1", now)
       /\ calls' = [calls EXCEPT !["http"] = SendDone(body)]
       /\ lastOp' = [NoOp EXCEPT !.kind = "apiSend", !.conv = "c1",
                                 !.id = SendTmpId("c1"), !.okIdx = {1}]
       /\ fresh' = OvertakeConversations(OvertakeMessages(fresh, "c1"), {"c1"})
  /\ UNCHANGED <<sink, wiring, link, web, auth, apart, goroutines, nextTid, lastSink,
                 crashed, nOps, seen>>

\* the confirmation is delivered once the phone has the message
HandleConfirmation ==
  /\ ~crashed
  /\ calls["http"].pc \in {"sent", "done"}
  /\ Confirmation(calls["http"].arg) \notin seen.msg
  /\ handleMessage(Confirmation(calls["http"].arg), FALSE, FALSE)

\* both the HTTP handler and the handling of the confirmation are over
SendAndConfirmationDone ==
  /\ calls["http"].pc = "done"
  /\ Confirmation(calls["http"].arg) \in seen.msg

InitRace ==
  /\ \E withConv \in BOOLEAN :
       conversations = IF withConv
                         THEN UpsertConversation(EmptyTable, WebConversation)
                         ELSE EmptyTable
  /\ \E withMsg \in BOOLEAN :
       messages = IF withMsg
                    THEN SeedMessages({r \in SeedRows : r.MessageID = IdReal1})
                    ELSE EmptyTable
  /\ sbConversations = EmptyTable
  /\ sbMessages = EmptyTable
  /\ sbContacts = EmptyTable
  /\ \E configured \in BOOLEAN : appSupabase = NewWriter(configured)
  /\ handlerSupabase = ToSupabaseSync(appSupabase)
  /\ goroutines = {}
  /\ nextTid = 0
  /\ lastSink = "none"
  /\ crashed = FALSE
  /\ nOps = 0
  /\ lastOp = NoOp
  /\ seen = NoHistory
  /\ fresh = NoHistory
  /\ LoadAndConnectReturned
  /\ calls = NoCalls
  /\ PairedSession
  /\ NotApart
  /\ drafts = EmptyTable

NextRace ==
  \/ ApiSendReturns
  \/ ApiSendStores
  \/ HandleConfirmation
  \/ RunMessageGoroutine

SpecRace == InitRace /\ [][NextRace]_vars

(***************************************************************************)
(* Backfill runs (App.Backfill, App.DeepBackfill).  The phone's content    *)
(* and the calls that fail are a script fixed when the run starts: the     *)
(* server holds conversations 1..convs with messages 1..msgs each, and a   *)
(* message is identified by <<conversation, index>>.  The sink is not      *)
(* configured in these runs, so storeConversation and storeMessage start   *)
(* no goroutine.                                                           *)
(***************************************************************************)
\* the count DeepBackfill and Backfill pass to ListConversations
ListCount == 100
\* the count deepBackfillConversation passes to FetchMessages
DeepFetchCount == 50
\* the count Backfill passes to FetchMessages
BackfillFetchCount == 20

Min(a, b) == IF a <= b THEN a ELSE b

\* how much the phone holds: <<conversations, messages per conversation>>
ServerSizes ==
  {<<0, 0>>, <<1, 0>>, <<1, 1>>, <<2, 1>>, <<2, BackfillFetchCount + 1>>,
   <<1, DeepFetchCount>>, <<2, DeepFetchCount + 1>>,
   <<3, 2 * DeepFetchCount + 1>>, <<ListCount, 1>>, <<ListCount + 1, 1>>}

\* storeFails: conversations whose UpsertConversation fails; msgFails:
\* messages whose UpsertMessage fails; fetchFails: <<conversation, offset>>
\* of the FetchMessages calls that fail; lastCursor: whether the response
\* holding the last messages still carries a cursor
ServerScripts ==
  { [convs |-> sz[1], msgs |-> sz[2], storeFails |-> sf, msgFails |-> mf,
     fetchFails |-> ff, lastCursor |-> lc] :
       sz \in ServerSizes, sf \in SUBSET {2}, mf \in SUBSET {<<1, 1>>},
       ff \in {{}, {<<1, 0>>}, {<<2, DeepFetchCount>>}},
       lc \in BOOLEAN }

ServerConversation(i) ==
  [ConversationID |-> i, Name |-> "B", IsGroupChat |-> FALSE,
   Participants |-> <<>>, LastMessageTimestamp |-> 2000000,
   Unread |-> FALSE]

ServerMessage(c, k) ==
  [MessageID |-> <<c, k>>, ConversationID |-> c, Body |-> "a",
   MimeType |-> "", IsMe |-> FALSE]

\* Client.ListConversations(count, INBOX): the first count conversations
ListConversations(script, count) == 1 .. Min(script.convs, count)

\* Client.FetchMessages(conv, count, cursor): the cursor is the number of
\* messages already handed out, {} for nil
FetchMessages(script, conv, count, cursor) ==
  LET off == IF cursor = {} THEN 0 ELSE CHOOSE o \in cursor : TRUE
      hi == Min(off + count, script.msgs)
  IN
  IF <<conv, off>> \in script.fetchFails
    THEN [err |-> TRUE, msgs |-> {}, cursor |-> {}]
    ELSE [err |-> FALSE, msgs |-> (off + 1) .. hi,
          cursor |-> IF hi < script.msgs \/ script.lastCursor
                       THEN {Max(off, hi)} ELSE {}]

\* the messages table after storeMessage was called for each message of a
\* batch; the messages of a batch have distinct ids, so each upsert
\* touches a row of its own
StoreBatch(msgs, script, conv, ks) ==
  LET ok == {<<conv, k>> : k \in ks} \ script.msgFails IN
  [id \in DOMAIN msgs \cup ok |->
     IF id \in ok
       THEN storeMessageStore(msgs, ServerMessage(id[1], id[2]), FALSE)[id]
       ELSE msgs[id]]

\* a run before it starts
BackfillIdle(script) ==
  [pc |-> "idle", stmt |-> "none",
   arg |-> [script |-> script, page |-> 0, i |-> 0, cursor |-> {},
            total |-> 0, passed |-> 0, ret |-> 0, totalConvos |-> 0,
            totalMsgs |-> 0, err |-> "none"]]

BackfillReturned(a, err) ==
  [pc |-> "returned", stmt |-> "none", arg |-> [a EXCEPT !.err = err]]

\* the range loop over the listed conversations moving on
NextConversation(a) ==
  IF a.i < a.page
    THEN [pc |-> "conv", stmt |-> "storeConversation",
          arg |-> [a EXCEPT !.i = a.i + 1]]
    ELSE BackfillReturned(a, "nil")

BackfillOp(kind, conv, err, n, cursorNil) ==
  [kind |-> kind, conv |-> conv, err |-> err, n |-> n,
   cursorNil |-> cursorNil]

BackfillFrame == UNCHANGED <<sink, wiring, goroutines, nextTid, lastSink,
                            crashed, nOps, history, link, web, auth, apart>>

\* a.Client == nil, then ListConversations
StartRun(p, listErr) ==
  LET a == calls[p].arg
      page == ListConversations(a.script, ListCount)
  IN
  /\ calls[p].pc = "idle"
  /\ calls' = [calls EXCEPT ![p] =
       IF cli = "nil" \/ listErr THEN BackfillReturned(a, "error")
       ELSE IF page = {} THEN BackfillReturned(a, "nil")
       ELSE [pc |-> "conv", stmt |-> "storeConversation",
             arg |-> [a EXCEPT !.page = Cardinality(page), !.i = 1]]]
  /\ lastOp' = BackfillOp("ListConversations", 0,
                          cli = "nil" \/ listErr, Cardinality(page), TRUE)
  /\ UNCHANGED primary
  /\ BackfillFrame

(* App.deepBackfillConversation *)
\* whether the fetch loop is left after a response
FetchLoopBreaks_OnCursorOnly(err, n, cursorNil) == err \/ cursorNil

FetchLoopBreaks(err, n, cursorNil) == err \/ n = 0 \/ cursorNil

\* one iteration of the loop: fetch, store the batch, count
deepBackfillConversation(p) ==
  LET a == calls[p].arg
      resp == FetchMessages(a.script, a.i, DeepFetchCount, a.cursor)
      n == Cardinality(resp.msgs)
      stored == ~resp.err /\ n > 0
      b == [a EXCEPT !.total = IF stored THEN a.total + n ELSE a.total,
                     !.passed = IF stored THEN a.passed + n ELSE a.passed,
                     !.cursor = IF stored THEN resp.cursor ELSE a.cursor]
  IN
  /\ messages' = IF stored
                   THEN StoreBatch(messages, a.script, a.i, resp.msgs)
                   ELSE messages
  /\ calls' = [calls EXCEPT ![p] =
       IF FetchLoopBreaks(resp.err, n, resp.cursor = {})
         THEN NextConversation([b EXCEPT !.ret = b.total,
                                         !.totalMsgs = a.totalMsgs + b.total])
         ELSE [pc |-> "fetch", stmt |-> "FetchMessages", arg |-> b]]
  /\ lastOp' = BackfillOp("FetchMessages", a.i, resp.err, n,
                          resp.cursor = {})
  /\ UNCHANGED conversations
  /\ BackfillFrame

(* App.DeepBackfill *)
DeepBackfillStart ==
  \E listErr \in BOOLEAN : StartRun("deepBackfill", listErr)

DeepBackfillStoreConversation ==
  LET a == calls["deepBackfill"].arg
      upsertErr == a.i \in a.script.storeFails
  IN
  /\ calls["deepBackfill"].pc = "conv"
  /\ conversations' = storeConversationStore(conversations,
                                             ServerConversation(a.i),
                                             upsertErr)
  /\ calls' = [calls EXCEPT !["deepBackfill"] =
       IF upsertErr THEN NextConversation(a)
       ELSE [pc |-> "fetch", stmt |-> "FetchMessages",
             arg |-> [a EXCEPT !.cursor = {}, !.total = 0, !.passed = 0,
                               !.totalConvos = a.totalConvos + 1]]]
  /\ lastOp' = BackfillOp("storeConversation", a.i, upsertErr, 0, TRUE)
  /\ UNCHANGED messages
  /\ BackfillFrame

DeepBackfillFetchMessages ==
  /\ calls["deepBackfill"].pc = "fetch"
  /\ deepBackfillConversation("deepBackfill")

BackfillInit(p) ==
  /\ conversations = EmptyTable
  /\ messages = EmptyTable
  /\ sbConversations = EmptyTable
  /\ sbMessages = EmptyTable
  /\ sbContacts = EmptyTable
  /\ appSupabase = NewWriter(FALSE)
  /\ handlerSupabase = ToSupabaseSync(appSupabase)
  /\ goroutines = {}
  /\ nextTid = 0
  /\ lastSink = "none"
  /\ crashed = FALSE
  /\ nOps = 0
  /\ lastOp = NoOp
  /\ seen = NoHistory
  /\ fresh = NoHistory
  /\ \E c \in {"client", "nil"} :
       /\ cli = c
       /\ connected = (c = "client")
       /\ loadPc = IF c = "client" THEN "done" ELSE "none"
       /\ nConnect = IF c = "client" THEN 1 ELSE 0
  /\ nDisconnect = 0
  /\ \E script \in ServerScripts :
       calls = [NoCalls EXCEPT ![p] = BackfillIdle(script)]
  /\ PairedSession
  /\ NotApart
  /\ drafts = EmptyTable

InitDeep == BackfillInit("deepBackfill")

NextDeep ==
  \/ DeepBackfillStart
  \/ DeepBackfillStoreConversation
  \/ DeepBackfillFetchMessages

\* the run is a goroutine of its own and is always scheduled again
SpecDeep == InitDeep /\ [][NextDeep]_vars /\ WF_vars(NextDeep)

(* App.Backfill *)
\* what the loop of Backfill does after a failed storeConversation or
\* FetchMessages
BackfillSkips_Returns(a) == BackfillReturned(a, "error")

BackfillSkips(a) == NextConversation(a)

BackfillStart == \E listErr \in BOOLEAN : StartRun("backfill", listErr)

\* one iteration of the range loop
BackfillConversation ==
  LET a == calls["backfill"].arg
      upsertErr == a.i \in a.script.storeFails
      resp == FetchMessages(a.script, a.i, BackfillFetchCount, {})
      failed == upsertErr \/ resp.err
  IN
  /\ calls["backfill"].pc = "conv"
  /\ conversations' = storeConversationStore(conversations,
                                             ServerConversation(a.i),
                                             upsertErr)
  /\ messages' = IF failed THEN messages
                 ELSE StoreBatch(messages, a.script, a.i, resp.msgs)
  /\ calls' = [calls EXCEPT !["backfill"] =
       IF failed THEN BackfillSkips(a) ELSE NextConversation(a)]
  /\ lastOp' = BackfillOp("Backfill", a.i, failed,
                          IF failed THEN 0 ELSE Cardinality(resp.msgs), TRUE)
  /\ BackfillFrame

InitStartup == BackfillInit("backfill")

NextStartup ==
  \/ BackfillStart
  \/ BackfillConversation

SpecStartup == InitStartup /\ [][NextStartup]_vars

(***************************************************************************)
(* Everything of the core that writes the messages table, side by side,    *)
(* over a store that may already hold a confirmed message: the event       *)
(* handler with its sweep, the send endpoint and backfill.                 *)
(***************************************************************************)
InitCore == InitRace

NextCore ==
  \/ HandleMessageReceived
  \/ HandleConfirmation
  \/ ApiSendReturns
  \/ ApiSendStores
  \/ BackfillStoreMessage
  \/ RunMessageGoroutine

SpecCore == InitCore /\ [][NextCore]_vars

(***************************************************************************)
(* GET /api/status as RunServe wires it: isConnected is                    *)
(* func() bool { return a.Connected.Load() }, never nil.                   *)
(***************************************************************************)
StatusConnected == connected

(***************************************************************************)
(* Writer.runMigrations: the files embedded under migrations/, the         *)
(* _migrations table of the sink's database, and the migrations the        *)
(* database has executed, over the starts of the process.                  *)
(***************************************************************************)
\* starts of the process the model follows
MaxRuns == 2

\* the bytes file names are made of, in byte order
NameBytes == <<"0", "1", "2", "_", "a">>

ByteRank(c) == CHOOSE i \in 1 .. Len(NameBytes) : NameBytes[i] = c

\* a < b on Go strings
RECURSIVE StringLess(_, _)
StringLess(a, b) ==
  IF b = <<>> THEN FALSE
  ELSE IF a = <<>> THEN TRUE
  ELSE IF a[1] # b[1] THEN ByteRank(a[1]) < ByteRank(b[1])
  ELSE StringLess(Tail(a), Tail(b))

IsDigit(c) == c \in {"0", "1", "2"}

DigitValue(c) == ByteRank(c) - 1

\* fmt.Sscanf(name, "%d", &version): the leading digits, 0 when there are
\* none
RECURSIVE ScanDigits(_, _)
ScanDigits(name, acc) ==
  IF name = <<>> \/ ~IsDigit(name[1]) THEN acc
  ELSE ScanDigits(Tail(name), 10 * acc + DigitValue(name[1]))

Sscanf(name) == ScanDigits(name, 0)

\* directory entries: the name without its extension, and whether the
\* extension is .sql
MigrationFiles ==
  { [name |-> <<"0", "0", "1", "_", "a">>, sql |-> TRUE],
    [name |-> <<"0", "0", "2", "_", "a">>, sql |-> TRUE],
    [name |-> <<"0", "1", "0">>, sql |-> TRUE],
    [name |-> <<"2", "_", "a">>, sql |-> TRUE],
    [name |-> <<"0", "0", "0">>, sql |-> TRUE],
    [name |-> <<"a", "1">>, sql |-> TRUE],
    [name |-> <<"0", "1", "1">>, sql |-> FALSE] }

MigrationDirs == {d \in SUBSET MigrationFiles : Cardinality(d) \in 2 .. 3}

\* sort.Slice(entries, Name() < Name())
RECURSIVE SortEntries(_)
SortEntries(dir) ==
  IF dir = {} THEN <<>>
  ELSE LET first == CHOOSE e \in dir :
                      \A o \in dir \ {e} : StringLess(e.name, o.name)
       IN <<first>> \o SortEntries(dir \ {first})

\* whether the loop passes an entry by before it asks the database
EntrySkipped(entry) == ~entry.sql \/ Sscanf(entry.name) = 0

\* the database before the first start
FreshDatabase(dir) ==
  [dir |-> dir, recorded |-> {}, applied |-> <<>>, run |-> 0, pc |-> "idle",
   rest |-> <<>>, ret |-> "none", thisRun |-> <<>>]

\* sql.Open, Ping, CREATE TABLE IF NOT EXISTS _migrations, ReadDir, sort
RunMigrationsStart ==
  /\ pg.pc \in {"idle", "returned"}
  /\ pg.run < MaxRuns
  /\ \E openErr \in BOOLEAN :
       pg' = IF openErr
               THEN [pg EXCEPT !.run = @ + 1, !.pc = "returned",
                               !.ret = "error", !.rest = <<>>,
                               !.thisRun = <<>>]
               ELSE [pg EXCEPT !.run = @ + 1, !.pc = "loop", !.ret = "none",
                               !.rest = SortEntries(pg.dir),
                               !.thisRun = <<>>]
  /\ lastOp' = [kind |-> "runMigrations", entry |-> <<>>, applied |-> FALSE,
                recorded |-> FALSE, err |-> FALSE]
  /\ UNCHANGED <<primary, sink, wiring, goroutines, nextTid, lastSink,
                 crashed, nOps, history, link, calls, web, auth, mac>>

\* one iteration of the loop over the entries
RunMigrationsEntry ==
  /\ pg.pc = "loop"
  /\ pg.rest # <<>>
  /\ \E checkErr \in BOOLEAN, applyErr \in BOOLEAN, recordErr \in BOOLEAN :
       LET entry == Head(pg.rest)
           version == Sscanf(entry.name)
           skipped == EntrySkipped(entry)
           known == version \in pg.recorded
           applies == ~skipped /\ ~checkErr /\ ~known /\ ~applyErr
           records == applies /\ ~recordErr
           failed == ~skipped /\ (checkErr \/ (~known /\ (applyErr \/ recordErr)))
       IN
       \* an error needs the statement that returns it
       /\ checkErr => ~skipped
       /\ applyErr => (~skipped /\ ~checkErr /\ ~known)
       /\ recordErr => applies
       /\ pg' = [pg EXCEPT
            !.applied = IF applies THEN Append(@, entry.name) ELSE @,
            !.thisRun = IF applies THEN Append(@, entry.name) ELSE @,
            !.recorded = IF records THEN @ \cup {version} ELSE @,
            !.rest = IF failed THEN <<>> ELSE Tail(@),
            !.pc = IF failed THEN "returned" ELSE "loop",
            !.ret = IF failed THEN "error" ELSE @]
       /\ lastOp' = [kind |-> "migration", entry |-> entry.name,
                     applied |-> applies, recorded |-> records,
                     err |-> failed]
  /\ UNCHANGED <<primary, sink, wiring, goroutines, nextTid, lastSink,
                 crashed, nOps, history, link, calls, web, auth, mac>>

\* the loop is over: return nil
RunMigrationsReturn ==
  /\ pg.pc = "loop"
  /\ pg.rest = <<>>
  /\ pg' = [pg EXCEPT !.pc = "returned", !.ret = "nil"]
  /\ lastOp' = [kind |-> "runMigrations", entry |-> <<>>, applied |-> FALSE,
                recorded |-> FALSE, err |-> FALSE]
  /\ UNCHANGED <<primary, sink, wiring, goroutines, nextTid, lastSink,
                 crashed, nOps, history, link, calls, web, auth, mac>>

InitMigrate ==
  /\ conversations = EmptyTable
  /\ messages = EmptyTable
  /\ sbConversations = EmptyTable
  /\ sbMessages = EmptyTable
  /\ sbContacts = EmptyTable
  /\ appSupabase = NewWriter(FALSE)
  /\ handlerSupabase = ToSupabaseSync(appSupabase)
  /\ goroutines = {}
  /\ nextTid = 0
  /\ lastSink = "none"
  /\ crashed = FALSE
  /\ nOps = 0
  /\ lastOp = NoOp
  /\ seen = NoHistory
  /\ fresh = NoHistory
  /\ NoApp
  /\ calls = NoCalls
  /\ PairedSession
  /\ drafts = EmptyTable
  /\ \E dir \in MigrationDirs : pg = FreshDatabase(dir)
  /\ mac = "none"

NextMigrate ==
  \/ RunMigrationsStart
  \/ RunMigrationsEntry
  \/ RunMigrationsReturn

SpecMigrate == InitMigrate /\ [][NextMigrate]_vars

(***************************************************************************)
(* The mirror: events and backfilled messages with a configured sink, and  *)
(* the detached goroutines that carry them to the sink in any order.  The  *)
(* sink may already hold conversation c1 from an earlier run; c2 is never  *)
(* mirrored.                                                               *)
(***************************************************************************)
MirrorMsgEvents ==
  { e \in MessagePayloads({IdReal1, IdTmp2},
                          {<<"", "">>, <<"a", "">>, <<"", "img">>}) : ~e.IsMe }

MirrorConvEvents ==
  ConversationPayloads({"c1"}, {"A"}, {FALSE}, {<<>>}, {1000000}, {FALSE})

MirrorMessageReceived ==
  /\ HandlerMayRun
  /\ \E evt \in MirrorMsgEvents : handleMessage(evt, FALSE, FALSE)

MirrorConversationUpdated ==
  /\ HandlerMayRun
  /\ \E conv \in MirrorConvEvents :
       handleConversations("handleConversation", <<conv>>, {})

InitMirror ==
  /\ conversations = EmptyTable
  /\ messages = EmptyTable
  /\ \E mirrored \in BOOLEAN :
       sbConversations =
         IF mirrored
           THEN upsert_conversation(EmptyTable, "c1", "A",
                                    FormatRFC3339(1000), FALSE, "")
           ELSE EmptyTable
  /\ sbMessages = EmptyTable
  /\ sbContacts = EmptyTable
  /\ appSupabase = NewWriter(TRUE)
  /\ handlerSupabase = ToSupabaseSync(appSupabase)
  /\ goroutines = {}
  /\ nextTid = 0
  /\ lastSink = "none"
  /\ crashed = FALSE
  /\ nOps = 0
  /\ lastOp = NoOp
  /\ seen = NoHistory
  /\ fresh = NoHistory
  /\ LoadAndConnectReturned
  /\ calls = NoCalls
  /\ PairedSession
  /\ NotApart
  /\ drafts = EmptyTable

NextMirror ==
  \/ MirrorMessageReceived
  \/ MirrorConversationUpdated
  \/ BackfillStoreMessage
  \/ RunMessageGoroutine
  \/ RunConversationGoroutine

SpecMirror == InitMirror /\ [][NextMirror]_vars

(***************************************************************************)
(* BackendManager (macOS app).  Its methods and the bodies of its tasks    *)
(* run on the main actor, one at a time; a task gives the actor up at its  *)
(* awaits.  Processes and health-check tasks are numbered as launched.     *)
(***************************************************************************)
\* calls of start() the model follows
MaxStarts == 2

\* for attempt in 1...30
HealthChecks == 30

\* what URLSession.shared.data(from: /api/status) gives a health check
StatusResponses ==
  { [err |-> TRUE, status |-> 0, connected |-> FALSE],
    [err |-> FALSE, status |-> 200, connected |-> TRUE],
    [err |-> FALSE, status |-> 200, connected |-> FALSE],
    [err |-> FALSE, status |-> 500, connected |-> TRUE] }

NoResponse == [err |-> TRUE, status |-> 0, connected |-> FALSE]

\* a health check that looks at the status code only
HealthCheckPassed_AnyBody(resp) == ~resp.err /\ resp.status = 200

\* http.statusCode == 200 and json["connected"] as? Bool == true
HealthCheckPassed(resp) ==
  ~resp.err /\ resp.status = 200 /\ resp.connected

\* guard state == .stopped || state == .needsPairing || state != .running
StartGuard(state) ==
  state = "stopped" \/ state = "needsPairing" \/ state # "running"

MacFrame ==
  UNCHANGED <<primary, sink, wiring, goroutines, nextTid, lastSink, crashed,
              nOps, history, link, calls, web, auth, pg>>

MacOp(kind, n, resp, cancelled) ==
  [kind |-> kind, n |-> n, resp |-> resp, cancelled |-> cancelled]

\* ContentView shows PairingView while the state is needsPairing, and its
\* onAppear starts the pair command
PairingViewAppears(before, after) ==
  IF after.state = "needsPairing" /\ before.state # "needsPairing"
       /\ after.pairing = "none"
    THEN [after EXCEPT !.pairing = "running"]
    ELSE after

\* BackendManager.start() called in the app state m
start(m, runErr) ==
  LET id == m.launched + 1
      called == [m EXCEPT !.starts = @ + 1]
  IN
  /\ mac' = PairingViewAppears(m,
       IF ~StartGuard(m.state) THEN called
       ELSE IF ~m.hasSession THEN [called EXCEPT !.state = "needsPairing"]
       ELSE IF runErr THEN [called EXCEPT !.state = "error"]
       ELSE [called EXCEPT !.state = "starting",
                           !.launched = id,
                           !.alive = @ \cup {id},
                           !.process = {id},
                           !.healthCheckTask = {id},
                           !.tasks = @ \cup {[id |-> id, attempt |-> 1,
                                              cancelled |-> FALSE,
                                              answered |-> FALSE,
                                              linked |-> FALSE]}])
  /\ lastOp' = MacOp("start", m.starts + 1, NoResponse, FALSE)
  /\ MacFrame

\* ContentView.onAppear, ErrorView "Try again"
BackendStart ==
  /\ mac.starts < MaxStarts
  /\ \E runErr \in BOOLEAN : start(mac, runErr)

\* PairingView.startPairing, case .success: the pair command prints a line
\* with "success" or "paired" once the session file is written, and its
\* termination handler yields .success again when it exits with status 0
PairingSucceeded ==
  /\ mac.starts < MaxStarts
  /\ mac.pairing \in {"running", "printed"}
  /\ \E runErr \in BOOLEAN, exits \in BOOLEAN :
       /\ mac.pairing = "printed" => exits
       /\ start([mac EXCEPT !.hasSession = TRUE,
                            !.pairing = IF exits THEN "none" ELSE "printed"],
                runErr)

\* POST /api/unpair from the web UI removes the session file
SessionRemoved ==
  /\ mac.hasSession
  /\ mac.alive # {}
  /\ mac' = [mac EXCEPT !.hasSession = FALSE]
  /\ lastOp' = MacOp("unpair", 0, NoResponse, FALSE)
  /\ MacFrame

\* BackendManager.stop(); a task that is cancelled while its request is
\* out may still be handed the response that had arrived (answered), which
\* says connected only if the session was there (linked)
BackendStop ==
  /\ mac' = PairingViewAppears(mac,
       [mac EXCEPT
          !.tasks = {IF t.id \in mac.healthCheckTask
                       THEN [t EXCEPT !.cancelled = TRUE,
                                      !.answered = (mac.alive # {}),
                                      !.linked = mac.hasSession]
                       ELSE t : t \in @},
          !.healthCheckTask = {},
          !.alive = @ \ mac.process,
          !.exited = @ \cup (mac.process \cap mac.alive),
          !.process = {},
          !.state = "stopped"])
  /\ lastOp' = MacOp("stop", 0, NoResponse, FALSE)
  /\ MacFrame

\* one iteration of the loop of startHealthCheck in a task that is not
\* cancelled, and the lines after the loop
HealthCheck ==
  \E t \in mac.tasks, resp \in StatusResponses :
    /\ ~t.cancelled
    \* an answer needs a backend that listens, and a backend whose session
    \* was removed by Unpair reports connected: false
    /\ ~resp.err => mac.alive # {}
    /\ resp.connected => mac.hasSession
    /\ mac' = PairingViewAppears(mac,
         IF HealthCheckPassed(resp)
           THEN [mac EXCEPT !.state = "running", !.tasks = @ \ {t}]
         ELSE IF t.attempt = HealthChecks
           THEN [mac EXCEPT !.state = "error", !.tasks = @ \ {t}]
         ELSE [mac EXCEPT !.tasks = (@ \ {t}) \cup
                                     {[t EXCEPT !.attempt = @ + 1]}])
    /\ lastOp' = MacOp("healthCheck", t.attempt, resp, FALSE)
    /\ MacFrame

\* a cancelled task gets the main actor back: its sleep or its request
\* threw, or the response had arrived before the cancellation; after that
\* Task.isCancelled ends it
HealthCheckCancelled ==
  \E t \in mac.tasks, resp \in StatusResponses :
    /\ t.cancelled
    /\ ~resp.err => t.answered
    /\ resp.connected => t.linked
    /\ mac' = PairingViewAppears(mac,
         IF HealthCheckPassed(resp)
           THEN [mac EXCEPT !.state = "running", !.tasks = @ \ {t}]
           ELSE [mac EXCEPT !.tasks = @ \ {t}])
    /\ lastOp' = MacOp("healthCheck", t.attempt, resp, TRUE)
    /\ MacFrame

\* a backend process exits by itself
ProcessExits ==
  \E p \in mac.alive :
    /\ mac' = [mac EXCEPT !.alive = @ \ {p}, !.exited = @ \cup {p}]
    /\ lastOp' = MacOp("exit", p, NoResponse, FALSE)
    /\ MacFrame

\* proc.terminationHandler: Task { @MainActor ... }
TerminationHandler ==
  \E p \in mac.exited :
    /\ mac' = PairingViewAppears(mac,
         [mac EXCEPT !.exited = @ \ {p},
                     !.state = IF @ = "running" THEN "error" ELSE @])
    /\ lastOp' = MacOp("terminationHandler", p, NoResponse, FALSE)
    /\ MacFrame

InitBackend ==
  /\ conversations = EmptyTable
  /\ messages = EmptyTable
  /\ sbConversations = EmptyTable
  /\ sbMessages = EmptyTable
  /\ sbContacts = EmptyTable
  /\ appSupabase = NewWriter(FALSE)
  /\ handlerSupabase = ToSupabaseSync(appSupabase)
  /\ goroutines = {}
  /\ nextTid = 0
  /\ lastSink = "none"
  /\ crashed = FALSE
  /\ nOps = 0
  /\ lastOp = NoOp
  /\ seen = NoHistory
  /\ fresh = NoHistory
  /\ NoApp
  /\ calls = NoCalls
  /\ PairedSession
  /\ drafts = EmptyTable
  /\ pg = "none"
  /\ \E hasSession \in BOOLEAN :
       mac = [state |-> "stopped", hasSession |-> hasSession,
              pairing |-> "none", process |-> {}, healthCheckTask |-> {},
              alive |-> {}, exited |-> {}, tasks |-> {}, starts |-> 0,
              launched |-> 0]

NextBackend ==
  \/ BackendStart
  \/ PairingSucceeded
  \/ SessionRemoved
  \/ BackendStop
  \/ HealthCheck
  \/ HealthCheckCancelled
  \/ ProcessExits
  \/ TerminationHandler

SpecBackend == InitBackend /\ [][NextBackend]_vars

(***************************************************************************)
(* NotificationManager (macOS app).  A poll runs on the main actor and     *)
(* gives it up at its two requests; what the backend answers is an input.  *)
(***************************************************************************)
\* successful polls the model follows
MaxPolls == 3

\* timestamps 1..MaxTS; 0 is lastSeenTimestamps[convID] ?? 0
MaxTS == 3

PollConvs == {"c1", "c2"}

\* a row of GET /api/conversations: ok is false when ConversationID,
\* LastMessageTS or Name is missing
PollRows ==
  [conv : PollConvs, lastTS : 1..MaxTS, ok : {TRUE}]
    \cup [conv : PollConvs, lastTS : {1}, ok : {FALSE}]

\* answers of GET /api/conversations?limit=20: one row per conversation
ConversationAnswers ==
  {<<>>}
    \cup {<<r>> : r \in PollRows}
    \cup {<<r1, r2>> : r1 \in {r \in PollRows : r.conv = "c1"},
                       r2 \in {r \in PollRows : r.conv = "c2"}}

\* a row of GET /api/conversations/{id}/messages: ok is false when
\* TimestampMS or IsFromMe is missing
MessageRows ==
  [ts : 1..MaxTS, fromMe : BOOLEAN, ok : {TRUE}]
    \cup [ts : {1}, fromMe : {FALSE}, ok : {FALSE}]

\* answers of GET /api/conversations/{id}/messages?limit=5, up to two rows
MessageAnswers ==
  {<<>>}
    \cup {<<m>> : m \in MessageRows}
    \cup {<<m1, m2>> : m1 \in MessageRows, m2 \in MessageRows}

\* a row that notifies whoever sent it
MessageIsNew_AnySender(msg, since) == msg.ok /\ msg.ts > since

\* guard let ts, ts > since, let isFromMe, !isFromMe else { continue }
MessageIsNew(msg, since) ==
  msg.ok /\ msg.ts > since /\ ~msg.fromMe

\* if lastTS > previousTS && previousTS > 0
ConversationHasNew(lastTS, previousTS) ==
  lastTS > previousTS /\ previousTS > 0

\* for msg in msgs { ... sendNotification(...); break }
FirstNew(msgs, since) ==
  LET hits == {i \in DOMAIN msgs : MessageIsNew(msgs[i], since)}
  IN IF hits = {} THEN {}
     ELSE {msgs[CHOOSE i \in hits : \A j \in hits : i <= j]}

PollOp(kind, conv) == [kind |-> kind, conv |-> conv]

\* checkForNewMessages up to its loop: the request fails, or its body is
\* not a list of objects, or the loop begins
checkForNewMessages ==
  /\ mac.pc = "idle"
  /\ mac.polls < MaxPolls
  /\ \E outcome \in {"error", "unparsable", "list"} :
       IF outcome = "list"
         THEN \E convos \in ConversationAnswers :
                /\ mac' = [mac EXCEPT !.pc = "loop",
                                      !.convos = convos,
                                      !.polls = @ + 1,
                                      !.atPollStart = mac.lastSeenTimestamps]
                /\ lastOp' = PollOp("poll", "")
         ELSE /\ mac' = mac
              /\ lastOp' = PollOp(outcome, "")
  /\ MacFrame

\* one iteration of for convo in convos, up to the request of fetchAndNotify
PollConversation ==
  /\ mac.pc = "loop"
  /\ mac.convos # <<>>
  /\ LET convo == Head(mac.convos)
         previousTS == mac.lastSeenTimestamps[convo.conv]
     IN
     /\ mac' =
          IF ~convo.ok
            THEN [mac EXCEPT !.convos = Tail(@)]
          ELSE IF mac.isFirstLoad
            THEN [mac EXCEPT !.convos = Tail(@),
                             !.lastSeenTimestamps[convo.conv] = convo.lastTS]
          ELSE IF ConversationHasNew(convo.lastTS, previousTS)
            THEN [mac EXCEPT !.pc = "fetch", !.since = previousTS]
          ELSE [mac EXCEPT !.convos = Tail(@),
                           !.lastSeenTimestamps[convo.conv] = convo.lastTS]
     /\ lastOp' = PollOp("conversation", convo.conv)
  /\ MacFrame

\* fetchAndNotify from its request on, and the rest of the iteration
fetchAndNotify ==
  /\ mac.pc = "fetch"
  /\ LET convo == Head(mac.convos)
     IN
     \E outcome \in {"error", "unparsable", "list"} :
       \E msgs \in IF outcome = "list" THEN MessageAnswers ELSE {<<>>} :
         /\ mac' = [mac EXCEPT
               !.pc = "loop",
               !.convos = Tail(@),
               !.lastSeenTimestamps[convo.conv] = convo.lastTS,
               !.sent = @ \cup {[poll |-> mac.polls, conv |-> convo.conv,
                                 ts |-> m.ts, fromMe |-> m.fromMe,
                                 recorded |-> mac.atPollStart[convo.conv],
                                 nth |-> Cardinality(
                                   {s \in mac.sent : s.poll = mac.polls
                                                     /\ s.conv = convo.conv})
                                   + 1]
                                : m \in FirstNew(msgs, mac.since)}]
         /\ lastOp' = PollOp("fetchAndNotify", convo.conv)
  /\ MacFrame

\* after the loop
PollEnd ==
  /\ mac.pc = "loop"
  /\ mac.convos = <<>>
  /\ mac' = [mac EXCEPT !.pc = "idle", !.isFirstLoad = FALSE]
  /\ lastOp' = PollOp("pollEnd", "")
  /\ MacFrame

InitNotify ==
  /\ conversations = EmptyTable
  /\ messages = EmptyTable
  /\ sbConversations = EmptyTable
  /\ sbMessages = EmptyTable
  /\ sbContacts = EmptyTable
  /\ appSupabase = NewWriter(FALSE)
  /\ handlerSupabase = ToSupabaseSync(appSupabase)
  /\ goroutines = {}
  /\ nextTid = 0
  /\ lastSink = "none"
  /\ crashed = FALSE
  /\ nOps = 0
  /\ lastOp = PollOp("none", "")
  /\ seen = NoHistory
  /\ fresh = NoHistory
  /\ NoApp
  /\ calls = NoCalls
  /\ PairedSession
  /\ drafts = EmptyTable
  /\ pg = "none"
  /\ mac = [pc |-> "idle", isFirstLoad |-> TRUE,
            lastSeenTimestamps |-> [c \in PollConvs |-> 0],
            convos |-> <<>>, since |-> 0, polls |-> 0,
            atPollStart |-> [c \in PollConvs |-> 0], sent |-> {}]

NextNotify ==
  \/ checkForNewMessages
  \/ PollConversation
  \/ fetchAndNotify
  \/ PollEnd

SpecNotify == InitNotify /\ [][NextNotify]_vars

(***************************************************************************)
(* Properties.                                                             *)
(***************************************************************************)

\* C1: once handleMessage or storeMessage has upserted a confirmed from-me
\* message (is_from_me, id without the tmp_ prefix) for a conversation, none
\* of its store calls returning an error, no tmp_ row is left stored for
\* that conversation.
C1_NoPlaceholderRemains ==
  (/\ lastOp.kind \in {"handleMessage", "storeMessage"}
   /\ 1 \in lastOp.okIdx
   /\ lastOp.confirmedFromMe
   /\ lastOp.kind = "handleMessage" => lastOp.swept)
    => TmpMessageIDs(messages, lastOp.conv) = {}

\* C2: with the sink disabled (NewWriter returned nil) no Writer method is
\* ever invoked and the process never dies.
C2_DisabledSinkIsInert ==
  appSupabase = "nil" => (lastSink = "none" /\ ~crashed)

\* C3: a sink call, failing or succeeding, leaves the Primary Store and what
\* the caller of Handle got back untouched, and with a live writer it never
\* ends the process: the Primary Store is the same whatever the sink answers.
C3_SinkOutcomeInvisible ==
  [][(RunMessageGoroutine \/ RunConversationGoroutine \/ RunContactsLoop)
       => /\ UNCHANGED <<primary, nOps, lastOp>>
          /\ (appSupabase # "nil" => UNCHANGED crashed)]_vars

\* a sink call has failed after an event was stored, and the process lives
C3_Witness ==
  /\ lastSink = "error"
  /\ ~crashed
  /\ lastOp.kind \in {"handleMessage", "handleConversation"}
  /\ 1 \in lastOp.okIdx

\* C4: while the process lives, Handle can take the next MessageReceived or
\* ConversationUpdated event whatever sink goroutines are still pending.
C4_HandleDoesNotWait ==
  (~crashed /\ nOps < MaxOps /\ goroutines # {})
    => (ENABLED HandleMessageReceived /\ ENABLED HandleConversationUpdated)

\* a MessageReceived event was handled, and its goroutine started, while the
\* goroutine of an earlier event was still pending
C4_Witness ==
  /\ lastOp.kind = "handleMessage"
  /\ lastOp.spawnedIdx = {1}
  /\ Cardinality(goroutines) >= 2
  /\ \A t \in goroutines : t.via = "handler" /\ t.stage = "rpc"

\* C5: an operation starts a sink goroutine only for records whose Primary
\* Store upsert succeeded; a failed upsert starts none.
C5_SinkOnlyAfterStore == lastOp.spawnedIdx \subseteq lastOp.okIdx

\* ClientReady whose first upsert failed and second succeeded: one goroutine,
\* for the second
C5_Witness ==
  /\ lastOp.kind = "handleClientReady"
  /\ lastOp.okIdx = {2}
  /\ lastOp.spawnedIdx = {2}

\* C6: handling the same MessageReceived or ConversationUpdated event again
\* right after handling it leaves the Primary Store as the first handling
\* left it (by induction, so do N handlings), and adds no row.
C6_UpsertIdempotent ==
  /\ \A e \in AllMsgEvents :
       LET once == handleMessageStore(messages, e, FALSE, FALSE) IN
       handleMessageStore(once, e, FALSE, FALSE) = once
  /\ \A e \in AllConvEvents :
       LET once == handleConversationStore(conversations, e, FALSE) IN
       handleConversationStore(once, e, FALSE) = once

\* the same ConversationUpdated event handled twice in a row: two goroutines
\* with the same payload, one stored row
C6_Witness ==
  /\ nOps = 2
  /\ lastOp.kind = "handleConversation"
  /\ DOMAIN conversations = {"c1"}
  /\ Cardinality(seen.conv) = 1
  /\ \E t1, t2 \in goroutines :
       /\ t1.tid # t2.tid
       /\ [t1 EXCEPT !.tid = 0] = [t2 EXCEPT !.tid = 0]
       /\ t1.via = "handler"

C8_TimestampNeverDecreases ==
  [][/\ \A c \in DOMAIN conversations :
          /\ c \in DOMAIN conversations'
          /\ conversations'[c].LastMessageTS >= conversations[c].LastMessageTS
     /\ \A c \in DOMAIN sbConversations :
          /\ c \in DOMAIN sbConversations'
          /\ sbConversations'[c].last_message_time
               >= sbConversations[c].last_message_time]_vars

\* the latest ConversationUpdated event carried a timestamp older than the
\* stored one, in the Primary Store and then in the sink
C8_Witness ==
  /\ lastOp.kind = "handleConversation"
  /\ lastOp.okIdx = {1}
  /\ \E e \in fresh.conv :
       /\ DbConversation(e).LastMessageTS
            < conversations[e.ConversationID].LastMessageTS
       /\ e.ConversationID \in DOMAIN sbConversations
       /\ lastSink = "ok"
       /\ goroutines = {}
       /\ FormatRFC3339(DbConversation(e).LastMessageTS)
            < sbConversations[e.ConversationID].last_message_time

\* C9: an upsert that hits an existing key keeps the stored name, body,
\* media type and media URL where the incoming value is empty and takes the
\* incoming value where it is not (sink SQL functions and Primary Store).
C9_CoalesceByNonEmptiness ==
  /\ (/\ lastOp.kind = "upsert_message"
      /\ ~lastOp.err
      /\ <<lastOp.args.p_id, lastOp.args.p_conversation_id>> \in DOMAIN lastOp.before)
       => LET a == lastOp.args
              old == lastOp.before[<<a.p_id, a.p_conversation_id>>]
              new == sbMessages[<<a.p_id, a.p_conversation_id>>]
          IN /\ new.content = IF a.p_content = "" THEN old.content ELSE a.p_content
             /\ new.media_type =
                  IF a.p_media_type = "" THEN old.media_type ELSE a.p_media_type
             /\ new.media_url =
                  IF a.p_media_url = "" THEN old.media_url ELSE a.p_media_url
  /\ (/\ lastOp.kind = "upsert_conversation"
      /\ lastOp.args.p_conversation_id \in DOMAIN lastOp.before)
       => LET a == lastOp.args
              old == lastOp.before[a.p_conversation_id]
              new == sbConversations[a.p_conversation_id]
          IN new.name = IF a.p_name = "" THEN old.name ELSE a.p_name
  /\ (/\ lastOp.kind = "UpsertMessage"
      /\ lastOp.args.MessageID \in DOMAIN lastOp.before)
       => LET a == lastOp.args
              old == lastOp.before[a.MessageID]
              new == messages[a.MessageID]
          IN /\ new.Body = IF a.Body = "" THEN old.Body ELSE a.Body
             /\ new.MimeType = IF a.MimeType = "" THEN old.MimeType ELSE a.MimeType
  /\ (/\ lastOp.kind = "UpsertConversation"
      /\ lastOp.args.ConversationID \in DOMAIN lastOp.before)
       => LET a == lastOp.args
              old == lastOp.before[a.ConversationID]
              new == conversations[a.ConversationID]
          IN new.Name = IF a.Name = "" THEN old.Name ELSE a.Name

\* upsert_message hit the stored row: the empty media type and URL kept the
\* stored ones, the non-empty content replaced the stored one
C9_Witness ==
  /\ lastOp.kind = "upsert_message"
  /\ ~lastOp.err
  /\ <<IdReal1, "c1">> \in DOMAIN lastOp.before
  /\ lastOp.args.p_conversation_id = "c1"
  /\ lastOp.args.p_media_url = "" /\ lastOp.args.p_media_type = ""
  /\ lastOp.args.p_content = "b"
  /\ sbMessages[<<IdReal1, "c1">>] =
       [content |-> "b", is_from_me |-> FALSE, media_type |-> "img",
        media_url |-> "v"]

\* C10: DeleteTmpMessages(c) removes exactly the rows of c whose id starts
\* with tmp_, returns how many they were, and leaves every other row as it
\* was.
C10_DeleteTmpMessagesExact ==
  lastOp.kind = "DeleteTmpMessages" =>
    LET before == lastOp.before
        c == lastOp.args.conv
        placeholders ==
          {id \in DOMAIN before :
             /\ before[id].ConversationID = c
             /\ Len(id) >= 4
             /\ id[1] = "t" /\ id[2] = "m" /\ id[3] = "p" /\ id[4] = "_"}
    IN /\ DOMAIN messages = DOMAIN before \ placeholders
       /\ \A id \in DOMAIN messages : messages[id] = before[id]
       /\ lastOp.n = Cardinality(placeholders)

\* two placeholders of c1 went; its confirmed row, its row named "tmp" and
\* the placeholder of c2 stayed
C10_Witness ==
  /\ lastOp.kind = "DeleteTmpMessages"
  /\ lastOp.args.conv = "c1"
  /\ lastOp.n = 2
  /\ DOMAIN messages = {IdReal1, IdTmpShort, IdTmp2}

\* C11: a MessageReceived or ConversationUpdated event whose Primary Store
\* upsert fails changes nothing in the Primary Store, runs no placeholder
\* sweep, starts no goroutine, does not end the process, and leaves Handle
\* ready for the next event.
C11_FailedUpsertDropsEvent ==
  [][ ( /\ nOps' = nOps + 1
        /\ lastOp'.kind \in {"handleMessage", "handleConversation"}
        /\ lastOp'.okIdx = {} )
      => ( /\ primary' = primary
           /\ ~lastOp'.swept
           /\ lastOp'.n = 0
           /\ goroutines' = goroutines
           /\ crashed' = crashed
           /\ (nOps' < MaxOps => HandlerMayRun') ) ]_vars

\* the upsert of a confirmed from-me message has failed while placeholders
\* of its conversation are stored, and they are still there
C11_Witness ==
  /\ lastOp.kind = "handleMessage"
  /\ lastOp.okIdx = {}
  /\ lastOp.confirmedFromMe
  /\ TmpMessageIDs(messages, lastOp.conv) # {}

\* C12: handling an event of a type Handle only logs, of an unknown type,
\* or a ListenFatalError, leaves the Primary Store tables and the sink
\* unchanged, starts no goroutine and does not end the process.
C12_LoggedEventsTouchNothing ==
  [][ ( /\ nOps' = nOps + 1
        /\ lastOp'.kind \in LoggedEvents \cup {"ListenFatalError"} )
      => ( /\ primary' = primary
           /\ sink' = sink
           /\ goroutines' = goroutines
           /\ nextTid' = nextTid
           /\ crashed' = crashed ) ]_vars

\* an event of an unknown type has been handled while a message is stored
\* and the goroutine of an earlier event is still pending
C12_Witness ==
  /\ lastOp.kind = "Unhandled"
  /\ messages # EmptyTable
  /\ goroutines # {}
  /\ ~crashed

\* C13: handling a ListenFatalError calls the OnDisconnect callback once
\* and leaves App.Connected false; no step of the handler calls Connect.
C13_FatalErrorDisconnectsOnce ==
  [][ /\ ( ( /\ nOps' = nOps + 1
              /\ lastOp'.kind = "ListenFatalError" )
            => ( /\ nDisconnect' = nDisconnect + 1
                 /\ connected' = FALSE ) )
      /\ nConnect' = nConnect ]_vars

\* a ListenFatalError has been handled after LoadAndConnect had stored
\* Connected = true
C13_Witness ==
  /\ lastOp.kind = "ListenFatalError"
  /\ loadPc = "done"
  /\ nDisconnect = 1
  /\ ~connected

\* conversations table after one ConversationUpdated event for each of
\* snapshot[1..k], in that order, each handled by a Handle call of its own
RECURSIVE OneByOneStore(_, _, _, _)
OneByOneStore(convs, snapshot, k, errs) ==
  IF k = 0 THEN convs
  ELSE handleConversationStore(OneByOneStore(convs, snapshot, k - 1, errs),
                               snapshot[k], k \in errs)

\* the goroutines those Handle calls start, numbered from tid as started
RECURSIVE OneByOneGoroutines(_, _, _, _, _)
OneByOneGoroutines(tid, snapshot, k, errs, iface) ==
  IF k = 0 THEN [started |-> {}, tid |-> tid]
  ELSE LET before == OneByOneGoroutines(tid, snapshot, k - 1, errs, iface) IN
       IF HandlerSpawns(k \in errs, iface)
         THEN [started |-> before.started \cup
                 {ConversationGoroutine(before.tid, "handler",
                                        DbConversation(snapshot[k]),
                                        snapshot[k].Participants)},
               tid |-> before.tid + 1]
         ELSE before

\* C14: a ClientReady event leaves the Primary Store as the
\* ConversationUpdated events for the conversations of its snapshot, handled
\* one by one in order with the same store outcomes, would leave it, and
\* starts the same sink goroutines.
C14_ClientReadyIsOneByOne ==
  [][ ( /\ nOps' = nOps + 1
        /\ lastOp'.kind = "handleClientReady" )
      => \E snapshot \in Snapshots :
           LET n == Len(snapshot)
               errs == (1..n) \ lastOp'.okIdx
               sunk == OneByOneGoroutines(nextTid, snapshot, n, errs,
                                          handlerSupabase)
           IN /\ lastOp'.okIdx \subseteq 1..n
              /\ lastOp'.conv = IF n > 0 THEN snapshot[1].ConversationID ELSE ""
              /\ conversations' = OneByOneStore(conversations, snapshot, n, errs)
              /\ messages' = messages
              /\ goroutines' = goroutines \cup sunk.started
              /\ nextTid' = sunk.tid ]_vars

\* a ClientReady whose first conversation could not be stored and whose
\* second one was
C14_Witness ==
  /\ lastOp.kind = "handleClientReady"
  /\ lastOp.okIdx = {2}
  /\ "c2" \in DOMAIN conversations
  /\ "c1" \notin DOMAIN conversations

\* the conversation payloads an operation of the given kind is given
PayloadsOf(kind) ==
  IF kind = "storeConversation" THEN BackfillConvs ELSE ConvEvents

\* C15: once handleConversation or storeConversation, as the first operation
\* of a run, has stored a conversation and its goroutine has finished without
\* a sink error, each participant of the conversation that is not self and
\* has a number is in the contacts table.
C15_ParticipantsBecomeContacts ==
  ( /\ nOps = 1
    /\ lastOp.kind \in {"handleConversation", "storeConversation"}
    /\ 1 \in lastOp.okIdx
    /\ goroutines = {}
    /\ ~crashed
    /\ lastSink # "error" )
  => \A conv \in PayloadsOf(lastOp.kind) :
       conv.ConversationID = lastOp.conv
         => \A i \in 1..Len(conv.Participants) :
              IsSyncedParticipant(conv.Participants[i])
                => conv.Participants[i].number \in DOMAIN sbContacts

\* C16: once Handle has stored a MessageReceived or ConversationUpdated
\* event without a store error, the conversations table has a row for the
\* conversation the event names.
C16_ConversationRowExists ==
  ( /\ lastOp.kind \in {"handleMessage", "handleConversation"}
    /\ 1 \in lastOp.okIdx )
  => lastOp.conv \in DOMAIN conversations

\* C17: message rows are keyed by (message id, conversation id): an upsert
\* of message id m for one conversation leaves a row stored under m for
\* another conversation as it was, in the Primary Store and in the sink.
C17_MessagesKeyedByPair ==
  /\ lastOp.kind = "UpsertMessage"
       => \A id \in DOMAIN lastOp.before :
            ( /\ id = lastOp.args.MessageID
              /\ lastOp.before[id].ConversationID # lastOp.args.ConversationID )
            => ( /\ id \in DOMAIN messages
                 /\ messages[id] = lastOp.before[id] )
  /\ lastOp.kind = "upsert_message"
       => \A k \in DOMAIN lastOp.before :
            ( /\ k[1] = lastOp.args.p_id
              /\ k[2] # lastOp.args.p_conversation_id )
            => ( /\ k \in DOMAIN sbMessages
                 /\ sbMessages[k] = lastOp.before[k] )

\* C18: at most one statement of the Primary Store executes at a time,
\* whoever the callers are; in particular no read executes while a write
\* is under way.
C18_StatementsSerialized ==
  /\ Cardinality(Executing(calls)) <= 1
  /\ ~\E r \in Executing(calls), w \in Executing(calls) :
        IsRead(calls[r].stmt) /\ ~IsRead(calls[w].stmt)

\* the event handler's upsert is executing while backfill and an HTTP read
\* wait for the connection
C18_Witness ==
  /\ calls["handler"].pc = "executing"
  /\ calls["backfill"].pc = "waiting"
  /\ calls["http"].pc = "waiting"
  /\ IsRead(calls["http"].stmt)

\* the tables that differ from msgs in DecryptionKey values only
Rekeyed(msgs) ==
  { t \in [DOMAIN msgs -> StoredMessages] :
      \A id \in DOMAIN msgs :
        [t[id] EXCEPT !.DecryptionKey = ""] =
          [msgs[id] EXCEPT !.DecryptionKey = ""] }

C20_StoreWrittenOnlyOnSuccess ==
  [][lastOp'.kind \in SendKinds
       => LET ok == lastOp'.code = 200 /\ lastOp'.status = "SUCCESS" IN
          /\ ~ok => UNCHANGED <<conversations, messages, drafts>>
          /\ lastOp'.code \in {400, 502, 503} => UNCHANGED <<primary, drafts>>
          /\ ok => /\ DOMAIN messages \subseteq DOMAIN messages'
                   /\ \A id \in DOMAIN messages' \ DOMAIN messages :
                        /\ HasPrefix(id, TmpPrefix)
                        /\ messages'[id].IsFromMe
                   /\ DOMAIN conversations' = DOMAIN conversations
                   /\ \A c \in DOMAIN conversations :
                        conversations'[c].LastMessageTS
                          \in {conversations[c].LastMessageTS} \cup NowMS]_vars

\* SendMessage has answered a send with a status other than SUCCESS, after an
\* earlier send had stored its placeholder and bumped the conversation
C20_Witness ==
  /\ lastOp.kind \in SendKinds
  /\ lastOp.code = 200
  /\ lastOp.status = "FAILURE_2"
  /\ \E id \in DOMAIN messages : HasPrefix(id, TmpPrefix)
  /\ \E c \in DOMAIN conversations : conversations[c].LastMessageTS \in NowMS

\* C21: the id BuildSendPayload or BuildSendMediaPayload produces is "tmp_"
\* followed by exactly 12 decimal digits, the three TmpID fields of the
\* request hold that same id, and every row the send path stores is stored
\* under an id with the prefix the sweep tests for.
C21_TmpIdFormat ==
  [][lastOp'.kind \in BuildKinds
       => LET p == lastOp'.payload IN
          /\ Len(p.TmpID) = Len(TmpPrefix) + 12
          /\ HasPrefix(p.TmpID, TmpPrefix)
          /\ \A i \in (Len(TmpPrefix) + 1)..Len(p.TmpID) :
               p.TmpID[i] \in DecimalDigits
          /\ p.MessagePayload.TmpID = p.TmpID
          /\ p.MessagePayload.TmpID2 = p.TmpID
          /\ p.TmpID \in DOMAIN messages'
          /\ \A id \in DOMAIN messages' \ DOMAIN messages :
               HasPrefix(id, TmpPrefix)]_vars

\* a send whose random number has fewer than 12 digits has stored its row
C21_Witness ==
  /\ lastOp.kind = "BuildSendPayload"
  /\ lastOp.payload.TmpID[Len(TmpPrefix) + 1] = "0"
  /\ lastOp.payload.TmpID \in DOMAIN messages
  /\ \E id \in DOMAIN messages : id[Len(TmpPrefix) + 1] = "9"

\* C22: the Handle call for AuthTokenRefreshed saves the current session
\* data to the session path within the call when the handler has a client
\* and a path and neither SessionData nor SaveSession fails; in every other
\* case the call returns all the same.  Either way the Primary Store is as
\* it was, nothing is left running and the process is alive for the next
\* event.
C22_AuthRefreshSavesOrReturns ==
  [][(nOps' = nOps + 1 /\ lastOp'.kind = "AuthTokenRefreshed")
       => /\ UNCHANGED <<conversations, messages, drafts>>
          /\ goroutines' = goroutines
          /\ crashed' = crashed
          /\ (cli # "nil" /\ sessionPath # ""
                /\ ~lastOp'.dataErr /\ ~lastOp'.saveErr)
               => sessionFile' = lastOp'.data
          /\ (cli = "nil" \/ sessionPath = "" \/ lastOp'.dataErr)
               => sessionFile' = sessionFile]_vars

\* a message event has been stored after a token refresh whose save failed
\* half way
C22_Witness ==
  /\ nOps = 2
  /\ sessionFile = "partial"
  /\ lastOp.kind = "handleMessage"
  /\ lastOp.okIdx = {1}
  /\ lastOp.id \in DOMAIN messages

\* the Handle call for a payload without text, status and media that the
\* store accepted
BareMessageStored ==
  /\ nOps' = nOps + 1
  /\ lastOp'.kind = "handleRawMessage"
  /\ IsBare(lastOp'.msg)
  /\ ~lastOp'.upsertErr

\* C23 as stated: after Handle has stored a MessageReceived event whose
\* payload has no text, no status and no media, the row of that message has
\* an empty body and status "unknown", is from-me exactly when a sender
\* participant is present and flagged as the local user, and the call has
\* not brought the process down.
C23_BareMessageHasDefaults ==
  [][BareMessageStored
       => LET msg == lastOp'.msg IN
          /\ msg.MessageID \in DOMAIN messages'
          /\ messages'[msg.MessageID].Body = ""
          /\ messages'[msg.MessageID].Status = "unknown"
          /\ messages'[msg.MessageID].IsFromMe
               = (msg.SenderParticipant # {}
                    /\ \E p \in msg.SenderParticipant : p.IsMe)
          /\ crashed' = crashed]_vars

\* C23 amended: the same, but the body of the row is empty only when no row
\* of that id held a body before; a body stored earlier is kept.
C23_BareMessageDefaultsUnlessStored ==
  [][BareMessageStored
       => LET msg == lastOp'.msg
              held == IF msg.MessageID \in DOMAIN messages
                        THEN messages[msg.MessageID].Body ELSE ""
          IN
          /\ msg.MessageID \in DOMAIN messages'
          /\ messages'[msg.MessageID].Body = held
          /\ messages'[msg.MessageID].Status = "unknown"
          /\ messages'[msg.MessageID].IsFromMe
               = (msg.SenderParticipant # {}
                    /\ \E p \in msg.SenderParticipant : p.IsMe)
          /\ crashed' = crashed]_vars

\* a bare payload has been stored for a message whose body was stored before
C23_Witness ==
  /\ lastOp.kind = "handleRawMessage"
  /\ IsBare(lastOp.msg)
  /\ ~lastOp.upsertErr
  /\ lastOp.msg.SenderParticipant = {}
  /\ lastOp.msg.MessageID \in DOMAIN messages
  /\ messages[lastOp.msg.MessageID].Body = "a"
  /\ messages[lastOp.msg.MessageID].Status = "unknown"

\* C24: a step of /api/drafts/send removes a draft row only when SendMessage
\* answered SUCCESS and the same step has inserted the placeholder message;
\* when the draft is unknown (404), the client is missing (503), the send
\* fails (502) or the status is not SUCCESS, the drafts table is as it was.
C24_DraftDeletedOnlyAfterInsert ==
  [][lastOp'.kind = "/api/drafts/send"
       => /\ drafts' # drafts
               => /\ lastOp'.code = 200
                  /\ lastOp'.status = "SUCCESS"
                  /\ \E id \in DOMAIN messages' \ DOMAIN messages :
                       /\ HasPrefix(id, TmpPrefix)
                       /\ messages'[id].IsFromMe
          /\ ~(lastOp'.code = 200 /\ lastOp'.status = "SUCCESS")
               => drafts' = drafts]_vars

\* C25: what GetMessages(phone, after, before, limit) returns holds each
\* stored message at most once, holds only messages whose sender number is
\* phone (when phone is given) and whose timestamp lies between after and
\* before, both ends included (0: no bound), is ordered by timestamp
\* descending, and has min(limit, number of such messages) entries, none of
\* them older than a matching message that was left out.
C25_GetMessagesExact ==
  lastOp.kind = "GetMessages"
    => LET a == lastOp.args
           r == lastOp.result
           ts(id) == messages[id].TimestampMS
           wanted == {id \in DOMAIN messages :
                        /\ a.phone # "" => messages[id].SenderNumber = a.phone
                        /\ a.after # 0 => ts(id) >= a.after
                        /\ a.before # 0 => ts(id) <= a.before}
           got == {r[i] : i \in 1..Len(r)}
       IN
       /\ got \subseteq wanted
       /\ Cardinality(got) = Len(r)
       /\ Len(r) = IF a.limit < Cardinality(wanted) THEN a.limit
                   ELSE Cardinality(wanted)
       /\ \A i \in 1..Len(r), j \in 1..Len(r) : i < j => ts(r[i]) >= ts(r[j])
       /\ \A id \in wanted \ got : \A i \in 1..Len(r) : ts(id) <= ts(r[i])

\* the two newest of the six stored rows, the older one sharing its
\* timestamp with a row that was left out, and the range query of the test
C25_Witness ==
  /\ DOMAIN messages = {r.MessageID : r \in QueryRows}
  /\ lastOp.kind = "GetMessages"
  /\ lastOp.args = [phone |-> "", after |-> 0, before |-> 0, limit |-> 2]
  /\ lastOp.result = <<"m5", "m4">>

\* C26: once the /api/send handler has finished and the confirmation event
\* of its message has been handled, in whichever order the two ran, the
\* conversation holds no placeholder row and the sent message is stored
\* under its final id.
C26_NoPlaceholderAfterRace ==
  SendAndConfirmationDone
    => /\ TmpMessageIDs(messages, "c1") = {}
       /\ IdReal2 \in DOMAIN messages

\* C27: when DeepBackfill completes without a fetch error, every
\* conversation the server holds, including those beyond the first page of
\* 100, and every message of each of them has a row in the Primary Store
\* (runs in which a store write fails are left out as well)
C27_DeepBackfillFetchesAll ==
  LET f == calls["deepBackfill"]
      s == f.arg.script
  IN
  (/\ f.pc = "returned"
   /\ f.arg.err = "nil"
   /\ s.fetchFails = {}
   /\ s.storeFails = {}
   /\ s.msgFails = {})
    => \A c \in 1 .. s.convs :
         /\ c \in DOMAIN conversations
         /\ \A k \in 1 .. s.msgs : <<c, k>> \in DOMAIN messages

\* C28: deepBackfillConversation leaves its loop exactly at the first fetch
\* error, empty batch or response without a cursor, returns the number of
\* messages it passed to storeMessage, and every call of it returns
C28_FetchLoopStopsAndCounts ==
  /\ [][LET f == calls["deepBackfill"]
            g == calls'["deepBackfill"]
            op == lastOp'
        IN
        f.pc = "fetch"
          => /\ op.kind = "FetchMessages"
             /\ (g.pc # "fetch") <=> (op.err \/ op.n = 0 \/ op.cursorNil)
             /\ g.arg.passed
                  = f.arg.passed + (IF op.err THEN 0 ELSE op.n)
             /\ g.pc # "fetch" => g.arg.ret = g.arg.passed]_vars
  /\ (calls["deepBackfill"].pc = "fetch")
       ~> (calls["deepBackfill"].pc # "fetch")

C28_Witness ==
  /\ lastOp.kind = "FetchMessages"
  /\ lastOp.n = 0
  /\ calls["deepBackfill"].pc # "fetch"
  /\ calls["deepBackfill"].arg.ret = 2 * DeepFetchCount + 1

\* C29: Backfill returns an error and writes nothing when no client is
\* connected; after ListConversations succeeded it returns nil, having
\* stored every listed conversation whose upsert did not fail and, for each
\* of those whose fetch did not fail, its most recent messages: a failure
\* skips the rest of that conversation only
C29_BackfillSkipsFailures ==
  LET f == calls["backfill"]
      s == f.arg.script
      listed == ListConversations(s, ListCount)
      kept == listed \ s.storeFails
      fetched == {c \in kept : <<c, 0>> \notin s.fetchFails}
  IN
  f.pc = "returned"
    => IF cli = "nil"
         THEN /\ f.arg.err = "error"
              /\ conversations = EmptyTable
              /\ messages = EmptyTable
         ELSE (lastOp.kind = "ListConversations" /\ lastOp.err)
              \/ /\ f.arg.err = "nil"
                 /\ DOMAIN conversations = kept
                 /\ DOMAIN messages
                      = {<<c, k>> : c \in fetched,
                                    k \in 1 .. Min(s.msgs, BackfillFetchCount)}
                          \ s.msgFails

C29_Witness ==
  LET f == calls["backfill"] IN
  /\ f.pc = "returned"
  /\ f.arg.err = "nil"
  /\ f.arg.script.storeFails = {2}
  /\ f.arg.script.fetchFails = {<<1, 0>>}
  /\ DOMAIN conversations = {1, 3}
  /\ <<3, BackfillFetchCount>> \in DOMAIN messages
  /\ <<1, 1>> \notin DOMAIN messages

\* C30: no step of the core removes a message row whose id does not start
\* with tmp_, so a confirmed message, once stored, stays stored through
\* every later event, send, sweep and backfill
C30_ConfirmedRowsStay ==
  [][\A id \in DOMAIN messages :
       ~HasPrefix(id, TmpPrefix) => id \in DOMAIN messages']_vars

\* a sweep has removed a placeholder of c1 and both confirmed rows of c1
\* are stored
C30_Witness ==
  /\ lastOp.kind = "handleMessage"
  /\ lastOp.swept
  /\ lastOp.n >= 1
  /\ {IdReal1, IdReal2} \subseteq DOMAIN messages
  /\ messages[IdReal1].ConversationID = "c1"
  /\ messages[IdReal2].ConversationID = "c1"

\* C31: App.Connected, and with it the connected field of /api/status, is
\* true only if LoadAndConnect has completed after a successful Connect and
\* no FatalConnectionError has been handled since that Connect returned
C31_ConnectedOnlyWhileLinked ==
  StatusConnected => (loadPc = "done" /\ nDisconnect = 0)

\* the versions of the migrations in a sequence of file names
VersionsOf(names) == {Sscanf(names[i]) : i \in 1 .. Len(names)}

\* C32: across the starts of the process each version is applied at most
\* once and is recorded in _migrations exactly when it was applied; no file
\* whose version parses to 0 is applied; within a start the files are
\* applied in ascending order of their names and none after a failure
C32_MigrationsOnceAndRecorded ==
  /\ \A i, j \in 1 .. Len(pg.applied) :
       Sscanf(pg.applied[i]) = Sscanf(pg.applied[j]) => i = j
  /\ pg.recorded = VersionsOf(pg.applied)
  /\ 0 \notin VersionsOf(pg.applied)
  /\ \A i, j \in 1 .. Len(pg.thisRun) :
       i < j => StringLess(pg.thisRun[i], pg.thisRun[j])
  /\ (pg.ret = "error" /\ pg.pc = "returned") => pg.rest = <<>>

\* C33: every message row of the sink has a non-empty content or a
\* non-empty media_type; a goroutine whose message has neither changes
\* nothing in the sink; and no step turns a stored non-empty content or
\* media_type into an empty one
C33_SinkRowsNeverEmpty ==
  /\ [](\A k \in DOMAIN sbMessages :
          sbMessages[k].content # "" \/ sbMessages[k].media_type # "")
  /\ [][/\ \A t \in goroutines :
             ( /\ goroutines' = goroutines \ {t}
               /\ t.fn = "UpsertMessage"
               /\ t.text = "" /\ t.media = "" ) => sink' = sink
        /\ \A k \in DOMAIN sbMessages :
             /\ k \in DOMAIN sbMessages'
             /\ sbMessages[k].content # "" => sbMessages'[k].content # ""
             /\ sbMessages[k].media_type # ""
                  => sbMessages'[k].media_type # ""]_vars

\* a row stored with a body has taken a media-only update of the same
\* message and kept both
C33_Witness ==
  /\ <<IdReal1, "c1">> \in DOMAIN sbMessages
  /\ sbMessages[<<IdReal1, "c1">>].content = "a"
  /\ sbMessages[<<IdReal1, "c1">>].media_type = "img"

\* C34: every message row of the sink names a conversation row of the sink;
\* a goroutine that carries a message whose conversation the sink does not
\* hold ends with an error, is not started again, and leaves the sink's
\* messages and the Primary Store as they were
C34_SinkMessagesHaveConversation ==
  /\ [](\A k \in DOMAIN sbMessages : k[2] \in DOMAIN sbConversations)
  /\ [][\A t \in goroutines :
          ( /\ goroutines' # goroutines
            /\ t \notin goroutines'
            /\ t.fn = "UpsertMessage"
            /\ ~(t.text = "" /\ t.media = "")
            /\ t.conv \notin DOMAIN sbConversations )
          => /\ goroutines' = goroutines \ {t}
             /\ sbMessages' = sbMessages
             /\ primary' = primary
             /\ lastSink' = "error"]_vars

\* the message of c1 reached the sink before its conversation did and was
\* dropped; the conversation arrived afterwards
C34_Witness ==
  /\ "c1" \in DOMAIN sbConversations
  /\ IdReal1 \in DOMAIN messages
  /\ messages[IdReal1].Body = "a"
  /\ sbMessages = EmptyTable
  /\ goroutines = {}
  /\ lastSink = "ok"
  /\ lastOp.kind = "handleConversation"

\* C35: a call of start() made while the state is starting or running
\* launches no process and starts no health-check task, so at most one
\* backend process is alive
C35_OneBackendProcess ==
  [][(lastOp'.kind = "start" /\ mac.state \in {"starting", "running"})
       => /\ mac'.alive = mac.alive
          /\ mac'.tasks = mac.tasks
          /\ Cardinality(mac'.alive) <= 1]_vars

\* the state turns to running only in a health-check step whose response
\* was HTTP 200 with connected == true
RunningOnlyAfterHealthCheck ==
  (mac'.state = "running" /\ mac.state # "running")
    => /\ lastOp'.kind = "healthCheck"
       /\ ~lastOp'.resp.err
       /\ lastOp'.resp.status = 200
       /\ lastOp'.resp.connected

\* the 30th failed check of a task that was not cancelled sets error
ErrorAfterAllChecksFail ==
  (/\ lastOp'.kind = "healthCheck"
   /\ lastOp'.n = HealthChecks
   /\ ~lastOp'.cancelled
   /\ ~(~lastOp'.resp.err /\ lastOp'.resp.status = 200
          /\ lastOp'.resp.connected))
    => mac'.state = "error"

\* C36 (as stated): running only after a health check got HTTP 200 with
\* connected == true; error after 30 failed checks of a task that was not
\* cancelled; without a session file every start() sets needsPairing and
\* launches no process
C36_StateFollowsHealthChecks ==
  [][/\ RunningOnlyAfterHealthCheck
     /\ ErrorAfterAllChecksFail
     /\ (lastOp'.kind = "start" /\ ~mac'.hasSession)
          => /\ mac'.state = "needsPairing"
             /\ mac'.launched = mac.launched
             /\ mac'.alive = mac.alive]_vars

\* C36 (amended): as above, but start() without a session file sets
\* needsPairing only when the state is not running; in state running it
\* returns at its guard and changes nothing
C36_StateFollowsHealthChecksUnlessRunning ==
  [][/\ RunningOnlyAfterHealthCheck
     /\ ErrorAfterAllChecksFail
     /\ (lastOp'.kind = "start" /\ ~mac'.hasSession /\ mac.state # "running")
          => /\ mac'.state = "needsPairing"
             /\ mac'.launched = mac.launched
             /\ mac'.alive = mac.alive
     /\ (lastOp'.kind = "start" /\ mac.state = "running")
          => /\ mac'.state = "running"
             /\ mac'.launched = mac.launched
             /\ mac'.alive = mac.alive
             /\ mac'.tasks = mac.tasks]_vars

C36_Witness ==
  /\ mac.state = "running"
  /\ lastOp.kind = "healthCheck"
  /\ lastOp.resp.connected
  /\ lastOp.n > 1

\* C37: the state is stopped only at launch and after stop(); once stopped
\* it stays stopped until the next call of start(): no health check and no
\* termination handler changes it
C37_StoppedUntilStart ==
  [][(mac.state = "stopped" /\ lastOp'.kind # "start")
       => mac'.state = "stopped"]_vars

====
